---------------------------- MODULE Spec2Model ----------------------------
(***************************************************************************)
(* CareerPilot: the task store (TaskContext.tsx), the profile store        *)
(* (UserContext.tsx, Profile.tsx), the persistence boundary (api.ts and    *)
(* the Express server) and the dashboard's profile-strength score.         *)
(*                                                                         *)
(* Each subsystem has its own specification over its own variables; the    *)
(* variables of the other subsystems stay at their initial value.          *)
(*   SpecToggle   the status toggle applied to any list of the Task type   *)
(*   SpecTask     TaskProvider with the shipped (mock) persistence         *)
(*   SpecTaskStore, SpecUserStore                                          *)
(*                the persistence boundary: MockBackend, or RealBackend    *)
(*                with the server's routes (api.ts:7 decides)              *)
(*   SpecUser     UserProvider.updateUser and its persistence request      *)
(*   SpecProfile  the Profile page's modals and handlers over UserProvider *)
(*   SpecStrength the dashboard's calculateProfileStrength                 *)
(*   SpecMetrics  the dashboard's metrics over task lists                  *)
(*   SpecChart    the dashboard's trend chart over join dates              *)
(*   SpecGap      GapAnalysis.fetchData and its recommended actions        *)
(*   SpecFocus    the Tasks page's effect and getSmartFocusArea            *)
(*   SpecSnapshot the dashboard's metrics for profiles without collections *)
(*   SpecSkills   the Profile page's skill handlers                        *)
(*   SpecAuth     UserProvider's login, register and logout                *)
(*   SpecIdentity the record the writes of updateUser are addressed to     *)
(*   SpecPut      the server's PUT /api/user/:email as a transaction       *)
(*   SpecAutoGen  the Tasks page opened while the session is restored      *)
(***************************************************************************)
EXTENDS Integers, Sequences, FiniteSets, TLC

(***************************************************************************)
(* Bounds of the model.                                                    *)
(***************************************************************************)
MaxTasks == 2
MaxInflight == 2
MaxUpdateFields == 2
MaxAutoId == 3
MaxPending == 1
MaxSubmits == 3
MaxItems == 2
MaxClock == 2
MaxSkills == 3
MaxEntries == 1

(***************************************************************************)
(* Values.                                                                 *)
(***************************************************************************)
Null == "null"
Absent == "absent"

TaskIds == {"t1", "t2"}
Titles == {"Read", "Build"}
\* src/types.ts:179
Statuses == {"Todo", "In Progress", "Done"}
Emails == {"alex@example.com", "umeshchapala@gmail.com"}
\* src/services/api.ts:11
MOCK_USER_ID == "1"

\* src/types.ts:174-182: a task; title stands for every field but id and status,
\* all of which the code copies with the spread ...t.
Task == [id : TaskIds, title : Titles, status : Statuses]

SeqsUpTo(S, n) == UNION {[1..k -> S] : k \in 0..n}

Range(s) == {s[i] : i \in DOMAIN s}

RemoveAt(s, i) == SubSeq(s, 1, i - 1) \o SubSeq(s, i + 1, Len(s))

VARIABLES
    tasks,        \* TaskProvider: useState<Task[]>
    loading,      \* TaskProvider: useState(false)
    error,        \* TaskProvider: useState<string | null>
    userEmail,    \* user.email as TaskProvider sees it ("" when signed out)
    inflight,     \* the task requests awaiting their promise
    lsTasks,      \* localStorage careerpilot_v7_tasks_<id>
    lastOp,       \* history: the step taken last
    prevTasks,    \* history: tasks before the step taken last
    origTasks,    \* history: tasks before the first of two toggles
    toggleCount   \* history: toggles applied in a row to lastOp.id

taskVars == <<tasks, loading, error, userEmail, inflight, lsTasks, lastOp,
              prevTasks, origTasks, toggleCount>>

\* The task variables but the two the persistence boundary shares.
taskUi == <<tasks, loading, error, userEmail, inflight, prevTasks, origTasks,
            toggleCount>>

VARIABLES
    lsUsers,      \* localStorage careerpilot_v7_users_db (MockBackend)
    dbUsers,      \* server: table users
    dbSkills,     \* server: table skills
    dbTasks,      \* server: table tasks
    dbSeq,        \* server: the AUTO_INCREMENT counter of each table
    USE_REAL_BACKEND  \* api.ts:7, fixed when the client is built

dbVars == <<dbUsers, dbSkills, dbTasks, dbSeq>>

backendVars == <<lsUsers, dbVars, USE_REAL_BACKEND>>

VARIABLES
    user,         \* UserProvider: useState<UserProfile>
    pending,      \* the api.user.update requests awaiting their promise
    activeModal,  \* Profile: useState<ModalType>(null)
    editingItem,  \* Profile: useState<any>(null); << >> is null, <<x>> is x
    now,          \* the reading Date.now() returns
    submits       \* history: the calls of updateUser so far

profileVars == <<user, pending, activeModal, editingItem, now, submits>>

VARIABLES
    metrics,      \* Dashboard: useState({strength: 0, ...})
    chartData,    \* Dashboard: useState<any[]>([])
    today,        \* the calendar date new Date() returns
    random        \* the values Math.random() returns, in order

dashVars == <<metrics, chartData, today, random>>

VARIABLES
    analysis,            \* GapAnalysis: useState<AnalysisResult | null>(null)
    recommendedActions,  \* GapAnalysis: useState<ActionItem[]>([])
    gapLoading,          \* GapAnalysis: useState(false)
    gapError,            \* GapAnalysis: useState<string | null>(null)
    gapCalls,            \* the calls of fetchData in flight: what each awaits
    localStorage,        \* the cached roadmap and analysis texts, by key
    focusArea,           \* Tasks: useState<string>('')
    hasGeneratedRef      \* Tasks: useRef(false)

gapVars == <<analysis, recommendedActions, gapLoading, gapError, gapCalls>>
focusVars == <<localStorage, focusArea, hasGeneratedRef>>

VARIABLES
    isAuthenticated,  \* UserContext: useState(false)
    userLoading,      \* UserContext: useState(true), false once the session is checked
    activeUser,       \* localStorage 'careerpilot_active_user', Null without the key
    authCalls,        \* the calls of checkSession, login and register in flight
    lsPasswords       \* the password field of the users_db records, by email

authVars == <<isAuthenticated, userLoading, activeUser, authCalls, lsPasswords>>

VARIABLES
    putCalls,   \* the PUT /api/user/:email requests the server is handling
    poolInUse   \* the connections taken from the pool and not released

serverVars == <<putCalls, poolInUse>>
pageVars == <<gapVars, focusVars, authVars, serverVars>>

nonTaskVars == <<backendVars, profileVars, dashVars, pageVars>>
nonBackendVars == <<taskUi, profileVars, dashVars, pageVars>>

vars == <<taskVars, backendVars, profileVars, dashVars, pageVars>>

(***************************************************************************)
(* TaskContext.tsx                                                         *)
(***************************************************************************)

\* The mutant of toggleStatus: the task is marked Done whatever it was.
toggleStatus_MarkDone(s) == "Done"

\* TaskContext.tsx:49  (t.status === 'Done' ? 'Todo' : 'Done')
toggleStatus(s) == IF s = "Done" THEN "Todo" ELSE "Done"

\* The mutant of toggleMap: the comparison with taskId is dropped.
toggleMap_All(ts, taskId) ==
    [i \in DOMAIN ts |-> [ts[i] EXCEPT !.status = toggleStatus(ts[i].status)]]

\* TaskContext.tsx:48-50  tasks.map(t => t.id === taskId ? {...t, status} : t)
toggleMap(ts, taskId) ==
    [i \in DOMAIN ts |->
        IF ts[i].id = taskId
        THEN [ts[i] EXCEPT !.status = toggleStatus(ts[i].status)]
        ELSE ts[i]]

\* api.ts:341, 346  const mockId = email || MOCK_USER_ID
mockId(email) == IF email = "" THEN MOCK_USER_ID ELSE email

\* api.ts:211-215  MockBackend.getTasks
MockBackend_getTasks(ls, userId) == ls[userId]

\* api.ts:217-220  MockBackend.saveTasks
MockBackend_saveTasks(ls, userId, ts) == [ls EXCEPT ![userId] = ts]

NoOp == [op |-> "none"]

(***************************************************************************)
(* SpecToggle: toggleTaskStatus's list update on any list of the Task      *)
(* type, once and then a second time on the same id.                       *)
(***************************************************************************)
InitBackendIdle ==
    /\ lsUsers = << >>
    /\ dbUsers = << >>
    /\ dbSkills = << >>
    /\ dbTasks = << >>
    /\ dbSeq = [skills |-> 0, tasks |-> 0]
    /\ USE_REAL_BACKEND = FALSE

\* UserContext.tsx:16-21  initialUser, in the fields the model carries.
initialUser ==
    [name |-> "", openToOpportunities |-> FALSE, readinessScore |-> 0,
     profileStrength |-> 0, skills |-> << >>, experience |-> << >>,
     education |-> << >>, certifications |-> << >>, projects |-> << >>]

\* api.ts:130-135: both seed records have the password 'password'.
SeedPasswords == [e \in Emails |-> "password"]

\* UserContext.tsx:26-28, 31-48, 50-63: the session once checkSession has
\* finished: authenticated, with the session key, exactly when the profile in
\* memory is that of a user.
InitSession ==
    /\ isAuthenticated = ("email" \in DOMAIN user /\ user.email # "")
    /\ userLoading = FALSE
    /\ activeUser = IF "email" \in DOMAIN user /\ user.email # ""
                    THEN user.email ELSE Null
    /\ authCalls = << >>
    /\ lsPasswords = SeedPasswords

\* UserContext.tsx:28, Profile.tsx:18-19: the state before anyone signs in.
InitProfileIdle ==
    /\ user = initialUser
    /\ pending = << >>
    /\ activeModal = Null
    /\ editingItem = << >>
    /\ now = 1
    /\ submits = 0

\* part_000:57-60 and part_002:10-13: the GapAnalysis and Tasks pages as mounted,
\* with nothing cached.
InitPageIdle ==
    /\ analysis = Null
    /\ recommendedActions = << >>
    /\ gapLoading = FALSE
    /\ gapError = Null
    /\ gapCalls = << >>
    /\ localStorage = [k \in {} |-> ""]
    /\ focusArea = ""
    /\ hasGeneratedRef = FALSE
    /\ putCalls = << >>
    /\ poolInUse = 0

\* part_003:309-317
InitDashIdle ==
    /\ metrics = [strength |-> 0, completionRate |-> 0, completedTasks |-> 0,
                  totalTasks |-> 0, learningHours |-> 0, readinessScore |-> 0,
                  hoursThisWeek |-> 0]
    /\ chartData = << >>
    /\ today = [year |-> 2024, month |-> 2, day |-> 15]
    /\ random = <<5>>
    /\ InitPageIdle

InitTaskIdle ==
    /\ tasks = << >>
    /\ loading = FALSE
    /\ error = Null
    /\ userEmail = ""
    /\ inflight = << >>
    /\ lsTasks = [u \in Emails \cup {MOCK_USER_ID} |-> << >>]
    /\ lastOp = NoOp
    /\ prevTasks = << >>
    /\ origTasks = << >>
    /\ toggleCount = 0

InitToggle ==
    /\ tasks \in SeqsUpTo(Task, MaxTasks)
    /\ loading = FALSE
    /\ error = Null
    /\ userEmail = ""
    /\ inflight = << >>
    /\ lsTasks = [u \in Emails \cup {MOCK_USER_ID} |-> << >>]
    /\ lastOp = NoOp
    /\ prevTasks = tasks
    /\ origTasks = tasks
    /\ toggleCount = 0
    /\ InitBackendIdle
    /\ InitProfileIdle
    /\ InitDashIdle
    /\ InitSession

\* TaskContext.tsx:48-51: the first application, to any id (present or not).
ToggleOnce(taskId) ==
    /\ toggleCount = 0
    /\ tasks' = toggleMap(tasks, taskId)
    /\ prevTasks' = tasks
    /\ lastOp' = [op |-> "toggle", id |-> taskId]
    /\ toggleCount' = 1
    /\ UNCHANGED <<loading, error, userEmail, inflight, lsTasks, origTasks, nonTaskVars>>

\* TaskContext.tsx:48-51: the second application, to the same id.
ToggleAgain ==
    /\ toggleCount = 1
    /\ tasks' = toggleMap(tasks, lastOp.id)
    /\ prevTasks' = tasks
    /\ toggleCount' = 2
    /\ UNCHANGED <<loading, error, userEmail, inflight, lsTasks, origTasks, lastOp, nonTaskVars>>

NextToggle ==
    \/ \E taskId \in TaskIds \cup {"t9"} : ToggleOnce(taskId)
    \/ ToggleAgain

SpecToggle == InitToggle /\ [][NextToggle]_vars

UniqueIds(ts) == \A i, j \in DOMAIN ts : ts[i].id = ts[j].id => i = j

\* C1: toggleTaskStatus(id) on a list with unique ids changes the status of exactly
\* the task with that id (Done to Todo, anything else to Done); every other task,
\* every other field, the length and the order stay; with no such id the list stays.
C1_ToggleFrame ==
    (toggleCount >= 1 /\ UniqueIds(prevTasks)) =>
        /\ Len(tasks) = Len(prevTasks)
        /\ \A i \in DOMAIN prevTasks :
              /\ tasks[i].id = prevTasks[i].id
              /\ tasks[i].title = prevTasks[i].title
              /\ IF prevTasks[i].id = lastOp.id
                 THEN tasks[i].status =
                        (IF prevTasks[i].status = "Done" THEN "Todo" ELSE "Done")
                 ELSE tasks[i].status = prevTasks[i].status
        /\ Cardinality({i \in DOMAIN prevTasks : tasks[i] # prevTasks[i]}) <= 1
        /\ (\A i \in DOMAIN prevTasks : prevTasks[i].id # lastOp.id) => tasks = prevTasks

C1_Witness ==
    /\ toggleCount = 1
    /\ Len(prevTasks) = 2
    /\ UniqueIds(prevTasks)
    /\ prevTasks[2].id = lastOp.id
    /\ prevTasks[2].status = "Done"
    /\ tasks[2].status = "Todo"
    /\ tasks[1] = prevTasks[1]

GenLists ==
    { << >>,
      <<[id |-> "t1", title |-> "Read", status |-> Absent]>>,
      <<[id |-> "t1", title |-> "Read", status |-> "Todo"],
        [id |-> "t2", title |-> "Build", status |-> "Done"]>> }

\* The mutant of sanitize: the generated statuses are kept.
sanitize_Keep(generated) == generated

\* TaskContext.tsx:68  generated.map(t => ({...t, status: 'Todo'}))
sanitize(generated) ==
    [i \in DOMAIN generated |-> [generated[i] EXCEPT !.status = "Todo"]]

\* TaskContext.tsx:24-44 with the effect of 42-44: user.email changes to e (login,
\* register, restored session: UserContext.tsx:38, 54, 69) and fetchTasks starts.
SignedIn(e) ==
    /\ e # userEmail
    /\ Len(inflight) < MaxInflight
    /\ userEmail' = e
    /\ loading' = TRUE
    /\ inflight' = Append(inflight, [kind |-> "fetch", email |-> e])
    /\ lastOp' = [op |-> "fetchStart"]
    /\ UNCHANGED <<tasks, error, lsTasks, prevTasks, origTasks, toggleCount, nonTaskVars>>

\* UserContext.tsx:80-84 and TaskContext.tsx:25-28: user.email becomes empty and
\* fetchTasks empties the list.
SignedOut ==
    /\ userEmail # ""
    /\ userEmail' = ""
    /\ tasks' = << >>
    /\ lastOp' = [op |-> "signedOut"]
    /\ UNCHANGED <<loading, error, inflight, lsTasks, prevTasks, origTasks, toggleCount, nonTaskVars>>

\* TaskContext.tsx:31-38 with api.ts:338-343: the timer fires, the stored list is
\* read and becomes the list.
fetchTasks_resolved(i) ==
    /\ inflight[i].kind = "fetch"
    /\ tasks' = MockBackend_getTasks(lsTasks, mockId(inflight[i].email))
    /\ error' = Null
    /\ loading' = FALSE
    /\ inflight' = RemoveAt(inflight, i)
    /\ lastOp' = [op |-> "fetchDone"]
    /\ UNCHANGED <<userEmail, lsTasks, prevTasks, origTasks, toggleCount, nonTaskVars>>

\* TaskContext.tsx:46-55: the optimistic update and the call of saveBatch.  The
\* button is one of the cards part_002:84-168 renders.
toggleTaskStatus(taskId) ==
    /\ userEmail # ""
    /\ error = Null
    /\ \E i \in DOMAIN tasks : tasks[i].id = taskId
    /\ Len(inflight) < MaxInflight
    /\ tasks' = toggleMap(tasks, taskId)
    /\ inflight' = Append(inflight,
           [kind |-> "save", email |-> userEmail, list |-> toggleMap(tasks, taskId)])
    /\ lastOp' = [op |-> "toggleTask", id |-> taskId]
    /\ UNCHANGED <<loading, error, userEmail, lsTasks, prevTasks, origTasks, toggleCount, nonTaskVars>>

\* TaskContext.tsx:55 with api.ts:344-348: the timer fires and the list is stored.
toggleTaskStatus_saved(i) ==
    /\ inflight[i].kind = "save"
    /\ lsTasks' = MockBackend_saveTasks(lsTasks, mockId(inflight[i].email), inflight[i].list)
    /\ inflight' = RemoveAt(inflight, i)
    /\ lastOp' = [op |-> "toggleSaved"]
    /\ UNCHANGED <<tasks, loading, error, userEmail, prevTasks, origTasks, toggleCount, nonTaskVars>>

\* TaskContext.tsx:62-67: setLoading(true) and the call of generateWeeklyTasks.
\* Callers: part_002:21-24 (not loading), 56-58 with 74-76 (button disabled while
\* loading) and 95 (Retry, shown while error is set).
generateNewTasks ==
    /\ userEmail # ""
    /\ (~loading) \/ error # Null
    /\ Len(inflight) < MaxInflight
    /\ loading' = TRUE
    /\ inflight' = Append(inflight, [kind |-> "generate", email |-> userEmail])
    /\ lastOp' = [op |-> "generateStart"]
    /\ UNCHANGED <<tasks, error, userEmail, lsTasks, prevTasks, origTasks, toggleCount, nonTaskVars>>

\* TaskContext.tsx:67-71: generateWeeklyTasks resolved with generated; the list is
\* replaced and saveBatch is called.
generateNewTasks_generated(i, generated) ==
    /\ inflight[i].kind = "generate"
    /\ tasks' = sanitize(generated)
    /\ inflight' = [inflight EXCEPT ![i] =
           [kind |-> "generateSave", email |-> inflight[i].email,
            list |-> sanitize(generated)]]
    /\ lastOp' = [op |-> "generated", generated |-> generated, before |-> tasks]
    /\ UNCHANGED <<loading, error, userEmail, lsTasks, prevTasks, origTasks, toggleCount, nonTaskVars>>

\* TaskContext.tsx:71-72, 76-78: saveBatch resolved; setError(null), setLoading(false).
generateNewTasks_saved(i) ==
    /\ inflight[i].kind = "generateSave"
    /\ lsTasks' = MockBackend_saveTasks(lsTasks, mockId(inflight[i].email), inflight[i].list)
    /\ error' = Null
    /\ loading' = FALSE
    /\ inflight' = RemoveAt(inflight, i)
    /\ lastOp' = [op |-> "generateDone", list |-> inflight[i].list]
    /\ UNCHANGED <<tasks, userEmail, prevTasks, origTasks, toggleCount, nonTaskVars>>

\* TaskContext.tsx:73-78 with part_006:419-422: generateWeeklyTasks rejected.
generateNewTasks_failed(i) ==
    /\ inflight[i].kind = "generate"
    /\ error' = "Failed to generate tasks"
    /\ loading' = FALSE
    /\ inflight' = RemoveAt(inflight, i)
    /\ lastOp' = [op |-> "generateFailed", before |-> tasks]
    /\ UNCHANGED <<tasks, userEmail, lsTasks, prevTasks, origTasks, toggleCount, nonTaskVars>>

NextTask ==
    \/ \E e \in Emails : SignedIn(e)
    \/ SignedOut
    \/ \E i \in DOMAIN inflight : fetchTasks_resolved(i)
    \/ \E taskId \in TaskIds : toggleTaskStatus(taskId)
    \/ \E i \in DOMAIN inflight : toggleTaskStatus_saved(i)
    \/ generateNewTasks
    \/ \E i \in DOMAIN inflight, generated \in GenLists :
          generateNewTasks_generated(i, generated)
    \/ \E i \in DOMAIN inflight : generateNewTasks_saved(i)
    \/ \E i \in DOMAIN inflight : generateNewTasks_failed(i)

InitTask ==
    /\ InitTaskIdle
    /\ InitBackendIdle
    /\ InitProfileIdle
    /\ InitDashIdle
    /\ InitSession

SpecTask == InitTask /\ [][NextTask]_vars

\* C25: whenever no task request is in flight, the list in memory is the
\* current user's: it is empty when nobody is signed in, and when the last
\* request to finish was a fetch it is the list stored for the current user; a
\* response to a request made for a previous user.email is never what stays.
C25_ListOfCurrentUser ==
    inflight = << >> =>
        /\ userEmail = "" => tasks = << >>
        /\ (userEmail # "" /\ lastOp.op = "fetchDone") =>
              tasks = MockBackend_getTasks(lsTasks, mockId(userEmail))

ScalarFields == {"name", "profileStrength", "readinessScore", "openToOpportunities"}
CollectionFields == {"skills"}
ProfileFields == ScalarFields \cup CollectionFields

\* The values a field takes in the model, in a fixed order.
FieldValues(f) ==
    CASE f = "name" -> <<"", "Alex Mercer">>
      [] f = "profileStrength" -> <<0, 85>>
      [] f = "readinessScore" -> <<0, 85>>
      [] f = "openToOpportunities" -> <<FALSE, TRUE>>
      [] f = "skills" -> << << >>, <<[name |-> "React"]>>,
                            <<[name |-> "Figma"], [name |-> "React"]>> >>

\* Partial<UserProfile>: at most MaxUpdateFields of the fields, each with a value
\* of its type.
PartialProfiles ==
    UNION { { [f \in D |-> FieldValues(f)[pick[f]]] :
                pick \in {p \in [D -> 1..3] : \A f \in D : p[f] <= Len(FieldValues(f))} } :
            D \in {X \in SUBSET ProfileFields : Cardinality(X) <= MaxUpdateFields} }

\* A techStack value: an array of strings, or the string a form field holds, kept
\* as its pieces between commas ('' is the one empty piece).
Arr(parts) == [isArray |-> TRUE, parts |-> parts]
Str(parts) == [isArray |-> FALSE, parts |-> parts]

\* api.ts:14-79  DEFAULT_USER_DATA, in the fields the model carries.
DEFAULT_USER_DATA ==
    [email |-> "alex@example.com", name |-> "Alex Mercer",
     profileStrength |-> 85, readinessScore |-> 85, openToOpportunities |-> TRUE,
     skills |-> <<[name |-> "Figma"], [name |-> "React"]>>,
     experience |-> <<[id |-> "1", company |-> "TechFlow Inc."]>>,
     education |-> <<[id |-> "1", institution |-> "California College of the Arts"]>>,
     certifications |-> <<[id |-> "1", name |-> "Google UX Design"]>>,
     projects |-> <<[id |-> "1", name |-> "FinTech Dashboard",
                     techStack |-> Arr(<<"Figma", "React">>)]>>]

\* api.ts:82-118  EMPTY_USER_DATA, in the fields the model carries.
EMPTY_USER_DATA ==
    [email |-> "", name |-> "", profileStrength |-> 0,
     readinessScore |-> 0, openToOpportunities |-> FALSE, skills |-> << >>,
     experience |-> << >>, education |-> << >>, certifications |-> << >>,
     projects |-> << >>]

\* api.ts:128-141  the seed getUsersDB stores when the key is empty.
SeedUsers ==
    << DEFAULT_USER_DATA,
       [EMPTY_USER_DATA EXCEPT !.name = "Umesh Chapala",
                               !.email = "umeshchapala@gmail.com"] >>

\* Array.prototype.findIndex on email; 0 stands for -1.
findIndex(users, email) ==
    IF \E i \in DOMAIN users : users[i].email = email
    THEN CHOOSE i \in DOMAIN users :
            /\ users[i].email = email
            /\ \A j \in DOMAIN users : users[j].email = email => i <= j
    ELSE 0

\* JavaScript falsiness of a field's value ('' and 0; an array is truthy).
Falsy(f, v) ==
    CASE f = "name" -> v = ""
      [] f \in {"profileStrength", "readinessScore"} -> v = 0
      [] OTHER -> FALSE

\* The mutant of spread: an update is applied only where its value is truthy.
spread_Truthy(obj, updates) ==
    [k \in DOMAIN obj \cup DOMAIN updates |->
        IF k \in DOMAIN updates /\ ~Falsy(k, updates[k])
        THEN updates[k] ELSE obj[k]]

\* { ...obj, ...updates }
spread(obj, updates) ==
    [k \in DOMAIN obj \cup DOMAIN updates |->
        IF k \in DOMAIN updates THEN updates[k] ELSE obj[k]]

\* api.ts:197-209  MockBackend.updateUser: the users array it stores.
MockBackend_updateUser(users, email, updates) ==
    IF findIndex(users, email) # 0
    THEN [users EXCEPT ![findIndex(users, email)] = spread(@, updates)]
    ELSE users

\* api.ts:185-195  MockBackend.getUser
MockBackend_getUser(users, email) ==
    IF email # "" /\ findIndex(users, email) # 0
    THEN users[findIndex(users, email)]
    ELSE DEFAULT_USER_DATA

\* part_004:116-119  getUserByEmail: rows[0], for an email that has a row.
getUserByEmail(users, email) == users[findIndex(users, email)]

\* part_004:116-119  getUserByEmail returns undefined.
noUser(users, email) == findIndex(users, email) = 0

\* part_004:274-288: the users row after UPDATE users SET ... WHERE id = ?
putUserFields(row, updates) ==
    [row EXCEPT
        !.name = IF "name" \in DOMAIN updates /\ updates.name # ""
                 THEN updates.name ELSE @,
        !.open_to_opportunities =
                IF "openToOpportunities" \in DOMAIN updates
                THEN updates.openToOpportunities ELSE @,
        !.profile_strength =
                IF "profileStrength" \in DOMAIN updates /\ updates.profileStrength # 0
                THEN updates.profileStrength ELSE @]

\* DELETE FROM <table> WHERE user_id = ?
deleteRows(table, userId) == SelectSeq(table, LAMBDA r : r.user_id # userId)

\* SELECT * FROM <table> WHERE user_id = ?
selectRows(table, userId) == SelectSeq(table, LAMBDA r : r.user_id = userId)

\* part_004:291-299: DELETE FROM skills, then one INSERT for each supplied skill.
putSkills(table, seq, userId, skills) ==
    deleteRows(table, userId) \o
        [i \in DOMAIN skills |->
            [id |-> seq + i, user_id |-> userId, name |-> skills[i].name]]

\* part_004:204-258  GET /api/user/:email, in the fields the model carries.
getUserProfile(email) ==
    LET row == getUserByEmail(dbUsers, email) IN
    [email |-> row.email, name |-> row.name,
     profileStrength |-> row.profile_strength,
     readinessScore |-> row.readiness_score,
     openToOpportunities |-> row.open_to_opportunities,
     skills |-> selectRows(dbSkills, row.id)]

\* The users rows of a server on which both seed users registered and saved their
\* profile's scalar fields.
SeedRows ==
    << [id |-> 1, email |-> "alex@example.com", name |-> "Alex Mercer",
        open_to_opportunities |-> TRUE,
        profile_strength |-> 85, readiness_score |-> 0],
       [id |-> 2, email |-> "umeshchapala@gmail.com", name |-> "Umesh Chapala",
        open_to_opportunities |-> FALSE,
        profile_strength |-> 0, readiness_score |-> 0] >>

\* The lists saveBatch is given.
SavedLists ==
    { << >>,
      <<[id |-> "t1", title |-> "Read", status |-> "Done"]>>,
      <<[id |-> "t1", title |-> "Read", status |-> "Todo"],
        [id |-> "t2", title |-> "Build", status |-> "Done"]>> }

\* JSON.parse(JSON.stringify(list)): a property whose value is undefined is dropped.
jsonRoundTrip(list) ==
    [i \in DOMAIN list |->
        [k \in {f \in DOMAIN list[i] : list[i][f] # Absent} |-> list[i][k]]]

InitBackend ==
    /\ lsUsers = SeedUsers
    /\ dbUsers = SeedRows
    /\ dbSkills = << >>
    /\ dbTasks = << >>
    /\ dbSeq = [skills |-> 0, tasks |-> 0]
    /\ USE_REAL_BACKEND \in BOOLEAN

\* api.ts:344-348 with 217-220: saveBatch on the mock.
MockSaveBatch(email, list) ==
    /\ ~USE_REAL_BACKEND
    /\ lsTasks' = MockBackend_saveTasks(lsTasks, mockId(email), jsonRoundTrip(list))
    /\ lastOp' = [op |-> "saveBatch", backend |-> "mock", email |-> email, list |-> list]
    /\ UNCHANGED <<backendVars, nonBackendVars>>

\* part_004:361-376  POST /api/tasks for each task of the list in turn
\* (api.ts:273-287): the rows inserted for a known user, none for an unknown one.
postTasks(users, seq, email, list) ==
    IF noUser(users, email)
    THEN << >>
    ELSE [i \in DOMAIN list |->
            [id |-> seq + i, user_id |-> getUserByEmail(users, email).id,
             title |-> list[i].title, status |-> "Todo"]]

\* api.ts:273-287  RealBackend.saveTasks
RealSaveBatch(email, list) ==
    /\ USE_REAL_BACKEND
    /\ dbSeq.tasks + Len(list) <= MaxAutoId
    /\ dbTasks' = dbTasks \o postTasks(dbUsers, dbSeq.tasks, email, list)
    /\ dbSeq' = [dbSeq EXCEPT !.tasks = @ + Len(postTasks(dbUsers, dbSeq.tasks, email, list))]
    /\ lastOp' = [op |-> "saveBatch", backend |-> "real", email |-> email, list |-> list]
    /\ UNCHANGED <<lsTasks, lsUsers, dbUsers, dbSkills, USE_REAL_BACKEND, nonBackendVars>>

\* part_004:378-389  GET /api/tasks/:email, as api.ts:267-271 returns it.
RealBackend_getTasks(email) ==
    IF noUser(dbUsers, email)
    THEN << >>
    ELSE selectRows(dbTasks, getUserByEmail(dbUsers, email).id)

\* api.ts:197-209  MockBackend.updateUser
MockUpdateUser(email, updates) ==
    /\ ~USE_REAL_BACKEND
    /\ lsUsers' = MockBackend_updateUser(lsUsers, email, updates)
    /\ lastOp' = [op |-> "updateUser", backend |-> "mock", email |-> email,
                  updates |-> updates]
    /\ UNCHANGED <<lsTasks, dbVars, USE_REAL_BACKEND, nonBackendVars>>

\* part_004:260-357 on the server's tables, for a user that exists: one
\* transaction.
putUser(email, updates) ==
    LET row == getUserByEmail(dbUsers, email)
        nSkills == IF "skills" \in DOMAIN updates THEN Len(updates.skills) ELSE 0
    IN
    /\ ~noUser(dbUsers, email)
    /\ dbSeq.skills + nSkills <= MaxAutoId
    /\ dbUsers' = [dbUsers EXCEPT ![findIndex(dbUsers, email)] = putUserFields(@, updates)]
    /\ dbSkills' = IF "skills" \in DOMAIN updates
                   THEN putSkills(dbSkills, dbSeq.skills, row.id, updates.skills)
                   ELSE dbSkills
    /\ dbSeq' = [dbSeq EXCEPT !.skills = @ + nSkills]
    /\ UNCHANGED dbTasks

\* api.ts:259-265 with part_004:260-357  RealBackend.updateUser, answered 200.
PutUser(email, updates) ==
    /\ USE_REAL_BACKEND
    /\ putUser(email, updates)
    /\ lastOp' = [op |-> "updateUser", backend |-> "real", email |-> email,
                  updates |-> updates]
    /\ UNCHANGED <<lsTasks, lsUsers, USE_REAL_BACKEND, nonBackendVars>>

\* part_004:268-271, 350-353: no such user; the transaction is rolled back.
PutUserNotFound(email) ==
    /\ USE_REAL_BACKEND
    /\ noUser(dbUsers, email)
    /\ lastOp' = [op |-> "updateUserFailed", backend |-> "real", email |-> email]
    /\ UNCHANGED <<lsTasks, backendVars, nonBackendVars>>

\* The emails saveBatch is called with: a user's, or none (api.ts:346).
SaveEmails == Emails \cup {""}

\* The emails updateUser is called with: a stored user's, and one no user has.
UpdateEmails == {"alex@example.com", "nobody@example.com"}

NextTaskStore ==
    \/ \E e \in SaveEmails, list \in SavedLists : MockSaveBatch(e, list)
    \/ \E e \in SaveEmails, list \in SavedLists : RealSaveBatch(e, list)

InitTaskStore ==
    /\ InitTaskIdle
    /\ InitBackend
    /\ InitProfileIdle
    /\ InitDashIdle
    /\ InitSession

SpecTaskStore == InitTaskStore /\ [][NextTaskStore]_vars

NextUserStore ==
    \/ \E e \in UpdateEmails, u \in PartialProfiles : MockUpdateUser(e, u)
    \/ \E e \in UpdateEmails, u \in PartialProfiles : PutUser(e, u)
    \/ \E e \in UpdateEmails : PutUserNotFound(e)

InitUserStore ==
    /\ InitTaskIdle
    /\ InitBackend
    /\ InitProfileIdle
    /\ InitDashIdle
    /\ InitSession

SpecUserStore == InitUserStore /\ [][NextUserStore]_vars

\* The titles and statuses of a list of tasks or of task rows, in order.
TaskView(list) == [i \in DOMAIN list |-> <<list[i].title, list[i].status>>]

\* C4: after saveBatch(L, email), getAll(email) returns exactly L (the same tasks
\* with the same statuses, nothing left over from earlier saves), on MockBackend
\* and on RealBackend with the server's task routes.
C4_SaveBatchThenGetAll ==
    lastOp.op = "saveBatch" =>
        IF lastOp.backend = "mock"
        THEN MockBackend_getTasks(lsTasks, mockId(lastOp.email)) = lastOp.list
        ELSE ~noUser(dbUsers, lastOp.email) =>
                TaskView(RealBackend_getTasks(lastOp.email)) = TaskView(lastOp.list)

\* A field's value as the claim compares it: of a collection, the names in order.
FieldView(f, v) ==
    IF f \in CollectionFields THEN [i \in DOMAIN v |-> v[i].name] ELSE v

\* The profile stored for email: MockBackend.getUser, or GET /api/user/:email.
StoredProfile(email) ==
    IF USE_REAL_BACKEND THEN getUserProfile(email)
    ELSE MockBackend_getUser(lsUsers, email)

\* C8: updateUser(email, updates) of an existing user sets every top-level field
\* present in updates to the supplied value (empty strings and zeros too), replaces
\* every sub-collection present, and leaves every omitted field as it was, on
\* MockBackend and on the server's PUT /api/user/:email.
C8_UpdateAppliesPresentFields ==
    [][ \A e \in Emails, f \in ProfileFields :
          (lastOp'.op = "updateUser" /\ lastOp'.email = e) =>
             FieldView(f, StoredProfile(e)[f])' =
                IF f \in DOMAIN lastOp'.updates
                THEN FieldView(f, lastOp'.updates[f])
                ELSE FieldView(f, StoredProfile(e)[f]) ]_vars

(***************************************************************************)
(* UserContext.tsx: updateUser and the persistence request it awaits.      *)
(***************************************************************************)

\* api.ts:329  const email = updates.email || DEFAULT_USER_DATA.email
apiEmail(updates) ==
    IF "email" \in DOMAIN updates /\ updates.email # ""
    THEN updates.email ELSE DEFAULT_USER_DATA.email

\* UserContext.tsx:86-93: the synchronous part of updateUser: the optimistic
\* merge, then the request api.user.update({...updates, email: user.email}).
updateUser(updates) ==
    /\ Len(pending) < MaxPending
    /\ submits < MaxSubmits
    /\ user' = spread(user, updates)
    /\ pending' = Append(pending,
                    [seq |-> submits + 1,
                     updates |-> IF "email" \in DOMAIN user
                                 THEN spread(updates, [email |-> user.email])
                                 ELSE updates])
    /\ submits' = submits + 1

\* A profile page opened by a user who has signed in (UserContext.tsx:50-63):
\* user is the stored profile of that user.
SignedInUsers == {StoredProfile(e) : e \in Emails}

\* The updates the pages call updateUser with, over a string and a collection of
\* the profile (Profile.tsx:70-76, 147, 151).
UserUpdates == {u \in PartialProfiles : DOMAIN u \subseteq {"name", "skills"}}

\* The call of updateUser by a page.
UserUpdate(updates) ==
    /\ updateUser(updates)
    /\ lastOp' = [op |-> "updateUser", updates |-> updates]
    /\ UNCHANGED <<activeModal, editingItem, now, backendVars, taskUi, lsTasks, dashVars, pageVars>>

\* UserContext.tsx:91-93: api.user.update resolves (api.ts:328-335): the mock has
\* stored the merge, or the server has answered the PUT with 200.
updateUser_persisted(i) ==
    LET req == pending[i].updates IN
    /\ IF USE_REAL_BACKEND
       THEN putUser(apiEmail(req), req) /\ UNCHANGED lsUsers
       ELSE /\ lsUsers' = MockBackend_updateUser(lsUsers, apiEmail(req), req)
            /\ UNCHANGED dbVars
    /\ pending' = RemoveAt(pending, i)
    /\ lastOp' = [op |-> "persisted", seq |-> pending[i].seq]
    /\ UNCHANGED <<user, activeModal, editingItem, now, submits, USE_REAL_BACKEND,
                   taskUi, lsTasks, dashVars, pageVars>>

\* UserContext.tsx:94-96: api.user.update rejects (api.ts:259-265: fetch fails, or
\* the server answers 404 or 500 and has rolled back); the error is logged.
updateUser_rejected(i) ==
    /\ USE_REAL_BACKEND
    /\ pending' = RemoveAt(pending, i)
    /\ lastOp' = [op |-> "rejected", seq |-> pending[i].seq,
                  updates |-> pending[i].updates]
    /\ UNCHANGED <<user, activeModal, editingItem, now, submits, backendVars,
                   taskUi, lsTasks, dashVars, pageVars>>

NextUser ==
    \/ \E u \in UserUpdates : UserUpdate(u)
    \/ \E i \in DOMAIN pending : updateUser_persisted(i)
    \/ \E i \in DOMAIN pending : updateUser_rejected(i)

InitUser ==
    /\ InitTaskIdle
    /\ InitBackend
    /\ InitDashIdle
    /\ user \in SignedInUsers
    /\ pending = << >>
    /\ activeModal = Null
    /\ editingItem = << >>
    /\ now = 1
    /\ submits = 0
    /\ InitSession

SpecUser == InitUser /\ [][NextUser]_vars

\* C9: updateUser merges the updates into the local profile at once, while the
\* persistence request is still pending and the store untouched; when the request
\* rejects, nothing is thrown to the caller, the local profile is not rolled back
\* and, no later update having been made, it still holds the merged updates.
C9_OptimisticNoRollback ==
    [][ /\ lastOp'.op = "updateUser" =>
            /\ \A f \in DOMAIN user' :
                  user'[f] = IF f \in DOMAIN lastOp'.updates
                             THEN lastOp'.updates[f] ELSE user[f]
            /\ DOMAIN user' = DOMAIN user \cup DOMAIN lastOp'.updates
            /\ Len(pending') = Len(pending) + 1
            /\ backendVars' = backendVars
        /\ lastOp'.op = "rejected" =>
            /\ user' = user
            /\ Len(pending') = Len(pending) - 1
            /\ backendVars' = backendVars
            /\ lastOp'.seq = submits =>
                  \A f \in DOMAIN lastOp'.updates : user'[f] = lastOp'.updates[f]
      ]_vars

C9_Witness ==
    /\ lastOp.op = "rejected"
    /\ "name" \in DOMAIN lastOp.updates
    /\ lastOp.updates.name = ""
    /\ user.name = ""
    /\ StoredProfile(user.email).name = "Alex Mercer"
    /\ pending = << >>

(***************************************************************************)
(* Profile.tsx: the modals and the handlers of the four sub-collections,   *)
(* over UserProvider with the shipped (mock) persistence.                  *)
(***************************************************************************)

\* types.ts: the sub-collections of a profile whose items carry an id.
Collections == {"experience", "projects", "education", "certifications"}

\* Profile.tsx:8  ModalType, for the four sub-collections.
ModalTypes == {"EXPERIENCE", "PROJECT", "EDUCATION", "CERTIFICATION"}

\* The collection a modal edits (Profile.tsx:238, 273, 309, 334).
collectionOf(type) ==
    CASE type = "EXPERIENCE" -> "experience"
      [] type = "PROJECT" -> "projects"
      [] type = "EDUCATION" -> "education"
      [] type = "CERTIFICATION" -> "certifications"

\* Number.prototype.toString for one digit.
Digits == <<"0", "1", "2", "3", "4", "5", "6", "7", "8", "9">>

\* Date.now().toString() at reading t: milliseconds since the epoch.
DateString(t) == "170000000000" \o Digits[t + 1]

\* Profile.tsx:239, 278, 310, 335: the form of a modal opened with no item; of an
\* item the model carries the id and one text field (and a project's techStack).
formDefaults(type) ==
    CASE type = "EXPERIENCE" -> [company |-> ""]
      [] type = "PROJECT" -> [name |-> "", techStack |-> Str(<<"">>)]
      [] type = "EDUCATION" -> [institution |-> ""]
      [] type = "CERTIFICATION" -> [name |-> ""]

\* What the user types into a field of the form: <<field, value>>.
FormInputs(type) ==
    CASE type = "EXPERIENCE" -> {<<"company", "Acme">>}
      [] type = "PROJECT" -> {<<"name", "Portfolio">>,
                              <<"techStack", Str(<<"React", " Node.js">>)>>}
      [] type = "EDUCATION" -> {<<"institution", "MIT">>}
      [] type = "CERTIFICATION" -> {<<"name", "CKA">>}

\* Profile.tsx:239, 310, 335: const formData = editingItem || {...defaults}; for a
\* project (274-280) the same value: initialData differs from editingItem only
\* when editingItem.techStack is an array, and then formData is editingItem.
formData(type) ==
    IF editingItem = << >> THEN formDefaults(type) ELSE editingItem[1]

\* String.prototype.trim on the pieces the model types.
trim(piece) == IF piece = " Node.js" THEN "Node.js" ELSE piece

\* Profile.tsx:99: a string is split at its commas and each piece trimmed; an
\* array is kept.
splitTrim(techStack) ==
    IF techStack.isArray THEN techStack
    ELSE Arr([i \in DOMAIN techStack.parts |-> trim(techStack.parts[i])])

\* Profile.tsx:81, 98, 115, 130: id: formData.id || Date.now().toString()
itemId(form) ==
    IF "id" \in DOMAIN form /\ form.id # "" THEN form.id ELSE DateString(now)

\* Profile.tsx:83, 102, 117, 132: list.map(item => item.id === newItem.id ? newItem : item)
mapReplace(list, newItem) ==
    [i \in DOMAIN list |-> IF list[i].id = newItem.id THEN newItem ELSE list[i]]

\* Profile.tsx:91, 110, 125, 140: list.filter(item => item.id !== id)
filterOut(list, id) == SelectSeq(list, LAMBDA item : item.id # id)

\* Profile.tsx:161-164
closeModalState ==
    /\ activeModal' = Null
    /\ editingItem' = << >>

\* What the profile handlers leave alone.
profileFrame == <<now, backendVars, taskUi, lsTasks, dashVars, pageVars>>

\* Profile.tsx:156-159  openModal(type, item): the Add button passes no item
\* (496, 542, 586, 725), the edit button of an item passes it (518, 551, 604,
\* 740); the buttons are under the overlay while a modal is open.
openModal(type, item) ==
    /\ activeModal = Null
    /\ activeModal' = type
    /\ editingItem' = item
    /\ lastOp' = [op |-> "openModal", type |-> type]
    /\ UNCHANGED <<user, pending, submits, profileFrame>>

\* Profile.tsx:161-164  closeModal (the Cancel and X buttons, 185, 193)
closeModal ==
    /\ activeModal \in ModalTypes
    /\ closeModalState
    /\ lastOp' = [op |-> "closeModal"]
    /\ UNCHANGED <<user, pending, submits, profileFrame>>

\* Profile.tsx:240, 282, 311, 336  handleChange: setEditingItem({...formData, [name]: value})
handleChange(type, input) ==
    /\ activeModal = type
    /\ editingItem' = <<spread(formData(type), [k \in {input[1]} |-> input[2]])>>
    /\ lastOp' = [op |-> "handleChange", type |-> type]
    /\ UNCHANGED <<user, pending, activeModal, submits, profileFrame>>

\* Profile.tsx:80-87
handleSaveExperience ==
    LET form == formData("EXPERIENCE")
        newItem == spread(form, [id |-> itemId(form)])
        newList == IF editingItem # << >>
                   THEN mapReplace(user.experience, newItem)
                   ELSE <<newItem>> \o user.experience
    IN
    /\ activeModal = "EXPERIENCE"
    /\ Len(newList) <= MaxItems
    /\ updateUser([experience |-> newList])
    /\ closeModalState
    /\ lastOp' = [op |-> "handleSave", type |-> "EXPERIENCE"]
    /\ UNCHANGED profileFrame

\* Profile.tsx:95-106
handleSaveProject ==
    LET form == formData("PROJECT")
        newItem == spread(form, [id |-> itemId(form),
                                 techStack |-> splitTrim(form.techStack)])
        newList == IF editingItem # << >>
                   THEN mapReplace(user.projects, newItem)
                   ELSE <<newItem>> \o user.projects
    IN
    /\ activeModal = "PROJECT"
    /\ Len(newList) <= MaxItems
    /\ updateUser([projects |-> newList])
    /\ closeModalState
    /\ lastOp' = [op |-> "handleSave", type |-> "PROJECT"]
    /\ UNCHANGED profileFrame

\* Profile.tsx:114-121
handleSaveEducation ==
    LET form == formData("EDUCATION")
        newItem == spread(form, [id |-> itemId(form)])
        newList == IF editingItem # << >>
                   THEN mapReplace(user.education, newItem)
                   ELSE user.education \o <<newItem>>
    IN
    /\ activeModal = "EDUCATION"
    /\ Len(newList) <= MaxItems
    /\ updateUser([education |-> newList])
    /\ closeModalState
    /\ lastOp' = [op |-> "handleSave", type |-> "EDUCATION"]
    /\ UNCHANGED profileFrame

\* Profile.tsx:129-136
handleSaveCertification ==
    LET form == formData("CERTIFICATION")
        newItem == spread(form, [id |-> itemId(form)])
        newList == IF editingItem # << >>
                   THEN mapReplace(user.certifications, newItem)
                   ELSE user.certifications \o <<newItem>>
    IN
    /\ activeModal = "CERTIFICATION"
    /\ Len(newList) <= MaxItems
    /\ updateUser([certifications |-> newList])
    /\ closeModalState
    /\ lastOp' = [op |-> "handleSave", type |-> "CERTIFICATION"]
    /\ UNCHANGED profileFrame

\* Profile.tsx:89-93 (window.confirm answered OK)
handleDeleteExperience(id) ==
    /\ activeModal = Null
    /\ \E i \in DOMAIN user.experience : user.experience[i].id = id
    /\ updateUser([experience |-> filterOut(user.experience, id)])
    /\ lastOp' = [op |-> "handleDelete", type |-> "EXPERIENCE", id |-> id]
    /\ UNCHANGED <<activeModal, editingItem, profileFrame>>

\* Profile.tsx:108-112
handleDeleteProject(id) ==
    /\ activeModal = Null
    /\ \E i \in DOMAIN user.projects : user.projects[i].id = id
    /\ updateUser([projects |-> filterOut(user.projects, id)])
    /\ lastOp' = [op |-> "handleDelete", type |-> "PROJECT", id |-> id]
    /\ UNCHANGED <<activeModal, editingItem, profileFrame>>

\* Profile.tsx:123-127
handleDeleteEducation(id) ==
    /\ activeModal = Null
    /\ \E i \in DOMAIN user.education : user.education[i].id = id
    /\ updateUser([education |-> filterOut(user.education, id)])
    /\ lastOp' = [op |-> "handleDelete", type |-> "EDUCATION", id |-> id]
    /\ UNCHANGED <<activeModal, editingItem, profileFrame>>

\* Profile.tsx:138-142
handleDeleteCertification(id) ==
    /\ activeModal = Null
    /\ \E i \in DOMAIN user.certifications : user.certifications[i].id = id
    /\ updateUser([certifications |-> filterOut(user.certifications, id)])
    /\ lastOp' = [op |-> "handleDelete", type |-> "CERTIFICATION", id |-> id]
    /\ UNCHANGED <<activeModal, editingItem, profileFrame>>

\* part_006:334-375: the ids analyzeResume gives the items of a collection:
\* `${prefix}_${timestamp}_${i}` with i from 0.
resumeIds(prefix, list) ==
    [i \in DOMAIN list |->
        spread(list[i], [id |-> prefix \o "_" \o DateString(now) \o "_" \o Digits[i]])]

\* part_006:334-378: the profile analyzeResume returns for a resume with two
\* jobs, a degree and a project; certifications is optional in the schema
\* (part_006:250-322) and this resume has none.
analyzeResume ==
    [name |-> "Alex Mercer",
     skills |-> <<[name |-> "React"]>>,
     experience |-> resumeIds("exp", <<[company |-> "Initech"], [company |-> "Globex"]>>),
     education |-> resumeIds("edu", <<[institution |-> "MIT"]>>),
     projects |-> resumeIds("proj", <<[name |-> "Portfolio", techStack |-> Arr(<< >>)]>>)]

\* Profile.tsx:28-40: reader.onloadend once analyzeResume has resolved with a
\* profile that has a name; a modal opened meanwhile stays open.
handleFileUpload ==
    /\ updateUser(analyzeResume)
    /\ lastOp' = [op |-> "handleFileUpload"]
    /\ UNCHANGED <<activeModal, editingItem, profileFrame>>

\* Time passes: Date.now() returns a later reading.
Tick ==
    /\ now < MaxClock
    /\ now' = now + 1
    /\ lastOp' = [op |-> "tick"]
    /\ UNCHANGED <<user, pending, activeModal, editingItem, submits,
                   backendVars, taskUi, lsTasks, dashVars, pageVars>>

NextProfile ==
    \/ \E type \in ModalTypes : openModal(type, << >>)
    \/ \E type \in ModalTypes :
          \E i \in DOMAIN user[collectionOf(type)] :
              openModal(type, <<user[collectionOf(type)][i]>>)
    \/ closeModal
    \/ \E type \in ModalTypes : \E input \in FormInputs(type) : handleChange(type, input)
    \/ handleSaveExperience
    \/ handleSaveProject
    \/ handleSaveEducation
    \/ handleSaveCertification
    \/ \E i \in DOMAIN user.experience : handleDeleteExperience(user.experience[i].id)
    \/ \E i \in DOMAIN user.projects : handleDeleteProject(user.projects[i].id)
    \/ \E i \in DOMAIN user.education : handleDeleteEducation(user.education[i].id)
    \/ \E i \in DOMAIN user.certifications :
          handleDeleteCertification(user.certifications[i].id)
    \/ handleFileUpload
    \/ \E i \in DOMAIN pending : updateUser_persisted(i)
    \/ Tick

\* The shipped build (api.ts:7), a seed user signed in and on the Profile page.
InitProfile ==
    /\ InitTaskIdle
    /\ InitBackend
    /\ USE_REAL_BACKEND = FALSE
    /\ InitDashIdle
    /\ user \in SignedInUsers
    /\ pending = << >>
    /\ activeModal = Null
    /\ editingItem = << >>
    /\ now = 1
    /\ submits = 0
    /\ InitSession

SpecProfile == InitProfile /\ [][NextProfile]_vars

\* The fields of item other than id, a techStack as the array handleSaveProject
\* stores.
Entered(item) ==
    [k \in DOMAIN item \ {"id"} |->
        IF k = "techStack" THEN splitTrim(item[k]) ELSE item[k]]

\* C5: a save from a modal that was opened with no item and typed into (the form
\* is in editingItem, without an id) submits the existing items plus exactly one
\* new item that carries the entered values and an id no existing item has; for
\* experience, projects, education and certifications.
C5_AddThroughModal ==
    [][ \A type \in ModalTypes :
          ( /\ lastOp'.op = "handleSave"
            /\ lastOp'.type = type
            /\ activeModal = type
            /\ editingItem # << >>
            /\ "id" \notin DOMAIN formData(type) ) =>
          LET old == user[collectionOf(type)]
              new == user'[collectionOf(type)]
          IN \E i \in DOMAIN new :
                /\ RemoveAt(new, i) = old
                /\ Entered(new[i]) = Entered(formData(type))
                /\ \A j \in DOMAIN old : old[j].id # new[i].id
      ]_vars

\* C6: a save from a modal opened with an item that is in its collection keeps
\* that item's id and position, replaces that item alone by the form and leaves
\* every other item of the collection and every other field of the profile as
\* it was.
C6_EditFrame ==
    [][ \A type \in ModalTypes :
          ( /\ lastOp'.op = "handleSave"
            /\ lastOp'.type = type
            /\ activeModal = type
            /\ editingItem # << >>
            /\ "id" \in DOMAIN formData(type)
            /\ \E i \in DOMAIN user[collectionOf(type)] :
                  user[collectionOf(type)][i].id = formData(type).id ) =>
          LET old == user[collectionOf(type)]
              new == user'[collectionOf(type)]
          IN /\ \E i \in DOMAIN old :
                  /\ old[i].id = formData(type).id
                  /\ Len(new) = Len(old)
                  /\ new[i].id = old[i].id
                  /\ Entered(new[i]) = Entered(formData(type))
                  /\ \A j \in DOMAIN old : j # i => new[j] = old[j]
             /\ \A f \in DOMAIN user : f # collectionOf(type) => user'[f] = user[f]
      ]_vars

\* C7: in every reachable state the ids within each sub-collection of the
\* profile are pairwise distinct, also when two items are created at the same
\* reading of Date.now().
C7_IdsDistinct == \A c \in Collections : UniqueIds(user[c])

(***************************************************************************)
(* The dashboard (part_003): calculateProfileStrength on any profile.      *)
(***************************************************************************)

\* part_003:259
requiredFields == <<"name", "role", "location", "bio", "targetRole">>

\* The strings a required field holds: of length 2 and of length 3.
FieldStrings == {"QA", "Dev"}

\* The avatars: none, a URL of 50 characters and one of 51.
AvatarUrls ==
    {"", "https://example.com/avatars/alex-mercer-profile-01",
         "https://example.com/avatars/alex-mercer-profile-001"}

\* A list of n entries.
Entries(n) == [i \in 1..n |-> [id |-> Digits[i + 1]]]

\* The profiles calculateProfileStrength is applied to: each required field a
\* string or undefined, skills undefined or of up to MaxSkills entries, the other
\* collections of up to MaxEntries.
StrengthProfiles ==
    { [email |-> "alex@example.com", avatarUrl |-> a, experience |-> Entries(x),
       education |-> Entries(d), projects |-> Entries(p)] @@ strs @@ sk :
        a \in AvatarUrls, x \in 0..MaxEntries, d \in 0..MaxEntries,
        p \in 0..MaxEntries,
        strs \in UNION {[D -> FieldStrings] : D \in SUBSET Range(requiredFields)},
        sk \in {[k \in {} |-> 0]} \cup {[skills |-> Entries(n)] : n \in 0..MaxSkills} }

\* The mutant of fieldScore: a string of two characters counts.
fieldScore_AtLeast2(u, field) ==
    IF field \in DOMAIN u /\ Len(u[field]) >= 2 THEN 10 ELSE 0

\* part_003:261-262  if (typeof val === 'string' && val.length > 2) score += 10
fieldScore(u, field) ==
    IF field \in DOMAIN u /\ Len(u[field]) > 2 THEN 10 ELSE 0

\* part_003:260-263  requiredFields.forEach(...), from field i on, added to score
RECURSIVE forEachField(_, _, _)
forEachField(u, i, score) ==
    IF i > Len(requiredFields) THEN score
    ELSE forEachField(u, i + 1, score + fieldScore(u, requiredFields[i]))

\* x?.length of a collection that may be undefined; -1 stands for undefined,
\* which compares false with every number.
optLength(u, field) == IF field \in DOMAIN u THEN Len(u[field]) ELSE -1

Min(a, b) == IF a < b THEN a ELSE b

\* part_003:257-276
calculateProfileStrength(u) ==
    LET s1 == forEachField(u, 1, 0)
        s2 == IF "avatarUrl" \in DOMAIN u /\ u.avatarUrl # "" /\ Len(u.avatarUrl) > 50
              THEN s1 + 10 ELSE s1
        s3 == IF optLength(u, "skills") >= 3 THEN s2 + 15
              ELSE IF optLength(u, "skills") > 0 THEN s2 + 5 ELSE s2
        s4 == IF optLength(u, "experience") >= 1 THEN s3 + 15 ELSE s3
        s5 == IF optLength(u, "education") >= 1 THEN s4 + 5 ELSE s4
        s6 == IF optLength(u, "projects") >= 1 THEN s5 + 5 ELSE s5
    IN Min(100, s6)

(***************************************************************************)
(* parseDuration (part_003:279-299).  A duration is the sequence of its    *)
(* characters; a number is kept in hundredths, NaN as -1, and hours in     *)
(* 1/6000 of an hour, so that hours and minutes/60 add exactly.            *)
(***************************************************************************)
IsDigit(c) == c \in Range(Digits)

DigitValue(c) == CHOOSE n \in 0..9 : Digits[n + 1] = c

\* \s, on the durations of the model.
IsSpace(c) == c = " "

\* String.prototype.toLowerCase, on the letters of the model.
toLowerCase(s) ==
    [i \in DOMAIN s |->
        CASE s[i] = "H" -> "h" [] s[i] = "M" -> "m" [] s[i] = "O" -> "o"
          [] s[i] = "U" -> "u" [] s[i] = "R" -> "r" [] s[i] = "S" -> "s"
          [] OTHER -> s[i]]

\* String.prototype.trim
RECURSIVE trimString(_)
trimString(s) ==
    IF s = << >> THEN s
    ELSE IF IsSpace(s[1]) THEN trimString(Tail(s))
    ELSE IF IsSpace(s[Len(s)]) THEN trimString(SubSeq(s, 1, Len(s) - 1))
    ELSE s

\* \d*: the index after the digits that start at i.
RECURSIVE digitsEnd(_, _)
digitsEnd(s, i) ==
    IF i <= Len(s) /\ IsDigit(s[i]) THEN digitsEnd(s, i + 1) ELSE i

\* \s*: the index after the spaces that start at i.
RECURSIVE spacesEnd(_, _)
spacesEnd(s, i) ==
    IF i <= Len(s) /\ IsSpace(s[i]) THEN spacesEnd(s, i + 1) ELSE i

\* The mutant of numberEnd: the decimals are not read.
numberEnd_NoDecimals(s, i) == digitsEnd(s, i)

\* (\d+(\.\d+)?) from i: the index after it (i when there is no digit at i).
numberEnd(s, i) ==
    LET e == digitsEnd(s, i) IN
    IF e > i /\ e <= Len(s) /\ s[e] = "." /\ digitsEnd(s, e + 1) > e + 1
    THEN digitsEnd(s, e + 1) ELSE e

\* /(\d+(\.\d+)?)\s*h/ or .../m/ matches at i.
matchesAt(s, i, unit) ==
    /\ numberEnd(s, i) > i
    /\ spacesEnd(s, numberEnd(s, i)) <= Len(s)
    /\ s[spacesEnd(s, numberEnd(s, i))] = unit

\* d.match(/(\d+(\.\d+)?)\s*h/): group 1 of the leftmost match, << >> for null.
match(s, unit) ==
    IF \E i \in DOMAIN s : matchesAt(s, i, unit)
    THEN LET i == CHOOSE k \in DOMAIN s :
                    /\ matchesAt(s, k, unit)
                    /\ \A j \in DOMAIN s : matchesAt(s, j, unit) => k <= j
         IN SubSeq(s, i, numberEnd(s, i) - 1)
    ELSE << >>

\* The value of a run of digits.
RECURSIVE digitsValue(_)
digitsValue(ds) ==
    IF ds = << >> THEN 0
    ELSE 10 * digitsValue(SubSeq(ds, 1, Len(ds) - 1)) + DigitValue(ds[Len(ds)])

\* parseFloat: the longest prefix digits[.digits] (of up to two decimals in the
\* model), in hundredths; -1 is NaN.
parseFloat(s) ==
    LET e == digitsEnd(s, 1)
        f == IF e <= Len(s) /\ s[e] = "." THEN digitsEnd(s, e + 1) ELSE e
        frac == SubSeq(s, e + 1, f - 1)
    IN IF e = 1 THEN -1
       ELSE 100 * digitsValue(SubSeq(s, 1, e - 1))
            + (CASE Len(frac) = 0 -> 0
                 [] Len(frac) = 1 -> 10 * digitsValue(frac)
                 [] OTHER -> digitsValue(SubSeq(frac, 1, 2)))

\* part_003:279-299  parseDuration, in 1/6000 of an hour.
parseDuration(duration) ==
    LET d == trimString(toLowerCase(duration))
        hourMatch == match(d, "h")
        minMatch == match(d, "m")
        h1 == IF hourMatch # << >> THEN 60 * parseFloat(hourMatch) ELSE 0
        h2 == IF minMatch # << >> THEN h1 + parseFloat(minMatch) ELSE h1
        h3 == IF h2 = 0 /\ parseFloat(d) # -1 THEN 60 * parseFloat(d) ELSE h2
    IN IF duration = << >> THEN 0
       ELSE IF h3 = 0 THEN 6000 ELSE h3

(***************************************************************************)
(* generateTrendChart (part_003:372-417).  A date is a year, a month from  *)
(* 0 and a day of the month; Invalid Date has year 0.                      *)
(***************************************************************************)
MonthNames ==
    <<"January", "February", "March", "April", "May", "June", "July", "August",
      "September", "October", "November", "December">>

\* toLocaleDateString('en-US', { month: 'short' })
ShortNames ==
    <<"Jan", "Feb", "Mar", "Apr", "May", "Jun", "Jul", "Aug", "Sep", "Oct", "Nov",
      "Dec">>

\* The years of the model's dates.
Years == 2019..2025

YearString(y) == "20" \o Digits[((y % 100) \div 10) + 1] \o Digits[(y % 10) + 1]

InvalidDate == [year |-> 0, month |-> 0, day |-> 0]

\* The strings toLocaleDateString('en-US', {month: 'long', year: 'numeric'})
\* writes (api.ts:136, 166), each with the date new Date reads from it, and the
\* same strings after a leading day 1.
DateStrings ==
    {<<prefix \o MonthNames[m + 1] \o " " \o YearString(y),
       [year |-> y, month |-> m, day |-> 1]>> :
        prefix \in {"", "1 "}, m \in 0..11, y \in Years}

\* new Date(str); any other string of the model is an Invalid Date.
parseDate(str) ==
    IF \E e \in DateStrings : e[1] = str
    THEN (CHOOSE e \in DateStrings : e[1] = str)[2]
    ELSE InvalidDate

DaysInMonth(y, m) ==
    CASE m = 1 -> IF y % 4 = 0 /\ (y % 100 # 0 \/ y % 400 = 0) THEN 29 ELSE 28
      [] m \in {3, 5, 8, 10} -> 30
      [] OTHER -> 31

\* Date.prototype.setMonth(m): the month may lie outside 0..11, and a day the
\* month does not have runs over into the next month.
setMonth(date, m) ==
    LET total == date.year * 12 + m
        y == total \div 12
        mo == total % 12
    IN IF date.day <= DaysInMonth(y, mo)
       THEN [year |-> y, month |-> mo, day |-> date.day]
       ELSE [year |-> (total + 1) \div 12, month |-> (total + 1) % 12,
             day |-> date.day - DaysInMonth(y, mo)]

\* `${joinedDateStr}` of a profile; the field may be undefined.
joinedDateOf(u) == IF "joinedDate" \in DOMAIN u THEN u.joinedDate ELSE "undefined"

Max(a, b) == IF a > b THEN a ELSE b

\* part_003:374-386: the join date the chart starts at.
joinedOf(joinedDateStr) ==
    IF parseDate(joinedDateStr) # InvalidDate THEN parseDate(joinedDateStr)
    ELSE IF parseDate("1 " \o joinedDateStr) # InvalidDate
         THEN parseDate("1 " \o joinedDateStr)
         ELSE setMonth(today, today.month - 6)

\* part_003:388
monthsDiffOf(joined) ==
    (today.year - joined.year) * 12 + (today.month - joined.month)

\* part_003:389  Math.max(3, Math.min(12, monthsDiff + 1))
pointsToGenerate(joined) == Max(3, Min(12, monthsDiffOf(joined) + 1))

\* Math.random() * 10 - 5 for the k-th interior point; a value of random is in
\* tenths.
jitterOf(k) == random[((k - 1) % Len(random)) + 1] - 5

\* The mutant of pointScore: the last point gets jitter as well.
pointScore_JitterLast(i, n, currentScore) ==
    LET j == IF i > 0 THEN jitterOf(i) ELSE 0
    IN Max(0, (2 * (n - 1) * (10 + j) + 2 * (currentScore - 10) * i + (n - 1))
              \div (2 * (n - 1)))

\* part_003:394-411: the score of point i of n (i from 0):
\* Math.max(0, Math.round(10 + (currentScore - 10) * (i / (n - 1)) + jitter))
pointScore(i, n, currentScore) ==
    LET j == IF i < n - 1 /\ i > 0 THEN jitterOf(i) ELSE 0
    IN Max(0, (2 * (n - 1) * (10 + j) + 2 * (currentScore - 10) * i + (n - 1))
              \div (2 * (n - 1)))

\* part_003:372-417  generateTrendChart: the data it sets.
generateTrendChart(joinedDateStr, currentScore) ==
    LET joined == joinedOf(joinedDateStr)
        n == pointsToGenerate(joined)
    IN [k \in 1..n |->
          [name |-> ShortNames[setMonth(joined, joined.month + (k - 1)).month + 1],
           score |-> pointScore(k - 1, n, currentScore)]]

(***************************************************************************)
(* calculateMetrics (part_003:327-370).                                    *)
(***************************************************************************)

\* IEEE-754 doubles: the pairs <<c, t>> with t below 120 for which
\* (c / t) * 100 evaluates to 57.49999999999999 while 100c/t is 57.5; for every
\* other pair with t below 120 Math.round of the double is the round of 100c/t.
BelowHalf == {<<23, 40>>, <<46, 80>>}

\* part_003:337  Math.round((compCount / totCount) * 100)
roundPercent(compCount, totCount) ==
    IF <<compCount, totCount>> \in BelowHalf
    THEN (100 * compCount) \div totCount
    ELSE (200 * compCount + totCount) \div (2 * totCount)

\* part_003:333  tasks.filter(t => t.status === 'Done')
completedOf(ts) == SelectSeq(ts, LAMBDA t : t.status = "Done")

\* parseDuration(t.duration); a task may have no duration.
taskHours(t) == IF "duration" \in DOMAIN t THEN parseDuration(t.duration) ELSE 0

\* part_003:340  completed.reduce((acc, t) => acc + parseDuration(t.duration), 0)
RECURSIVE totalHoursOf(_)
totalHoursOf(completed) ==
    IF completed = << >> THEN 0
    ELSE totalHoursOf(SubSeq(completed, 1, Len(completed) - 1))
         + taskHours(completed[Len(completed)])

\* The mutant of readiness: the weights of strength and completion are swapped.
readiness_Swapped(strength, rate, u) ==
    (5 * strength + 3 * rate + (IF Len(u.experience) > 0 THEN 200 ELSE 0) + 5) \div 10

\* part_003:346-350  Math.round(strength * 0.3 + rate * 0.5 + baseKnowledge)
readiness(strength, rate, u) ==
    (3 * strength + 5 * rate + (IF Len(u.experience) > 0 THEN 200 ELSE 0) + 5) \div 10

\* part_003:349  user.experience.length, read without ?. : a TypeError when the
\* profile has no experience collection.
experienceThrows(u) == "experience" \notin DOMAIN u

\* part_003:327-370: the effect (320-325) runs for a user with an email; the
\* metrics and the chart it sets, and the random values it has used.  An error
\* thrown inside the try block (349) is caught and logged at 363-365, before
\* setMetrics and generateTrendChart have been reached.
calculateMetrics ==
    LET strength == calculateProfileStrength(user)
        completed == completedOf(tasks)
        compCount == Len(completed)
        totCount == IF Len(tasks) = 0 THEN 1 ELSE Len(tasks)
        rate == roundPercent(compCount, totCount)
        totalHours == totalHoursOf(completed)
        weekHours == IF totalHours > 0
                     THEN (Max(30000, totalHours) + 15000) \div 30000 ELSE 0
        rScore == readiness(strength, rate, user)
        chart == generateTrendChart(joinedDateOf(user), Min(100, rScore))
    IN
    /\ user.email # ""
    /\ IF experienceThrows(user)
       THEN UNCHANGED <<metrics, chartData, random>>
       ELSE /\ metrics' = [strength |-> strength, completionRate |-> rate,
                           completedTasks |-> compCount, totalTasks |-> Len(tasks),
                           learningHours |-> (totalHours + 3000) \div 6000,
                           readinessScore |-> Min(100, rScore),
                           hoursThisWeek |-> weekHours]
            /\ chartData' = chart
            /\ random' = [k \in DOMAIN random |->
                            random[((k + Len(chart) - 3) % Len(random)) + 1]]
    /\ lastOp' = [op |-> "calculateMetrics", threw |-> experienceThrows(user)]
    /\ UNCHANGED <<today, profileVars, backendVars, taskUi, lsTasks, pageVars>>

NextStrength == calculateMetrics

InitStrength ==
    /\ InitTaskIdle
    /\ InitBackendIdle
    /\ InitDashIdle
    /\ user \in StrengthProfiles
    /\ pending = << >>
    /\ activeModal = Null
    /\ editingItem = << >>
    /\ now = 1
    /\ submits = 0
    /\ InitSession

SpecStrength == InitStrength /\ [][NextStrength]_vars

\* The number of elements of a collection of the profile, 0 when undefined.
Count(u, field) == IF field \in DOMAIN u THEN Len(u[field]) ELSE 0

\* The required fields of u that are strings of more than two characters.
Populated(u) == {f \in Range(requiredFields) : f \in DOMAIN u /\ Len(u[f]) > 2}

\* The score as the specification states it.
StrengthFormula(u) ==
    Min(100,
        10 * Cardinality(Populated(u))
        + (IF Len(u.avatarUrl) > 50 THEN 10 ELSE 0)
        + (CASE Count(u, "skills") >= 3 -> 15
             [] Count(u, "skills") \in 1..2 -> 5
             [] OTHER -> 0)
        + (IF Count(u, "experience") >= 1 THEN 15 ELSE 0)
        + (IF Count(u, "education") >= 1 THEN 5 ELSE 0)
        + (IF Count(u, "projects") >= 1 THEN 5 ELSE 0))

\* C10: calculateProfileStrength is min(100, 10 for each of name, role, location,
\* bio, targetRole that is a string longer than 2 + 10 for an avatarUrl longer
\* than 50 + 15 for three or more skills or 5 for one or two + 15 for an
\* experience + 5 for an education + 5 for a project): 0 for an empty profile
\* without avatar, 100 for a fully populated one, and always within 0..100.
C10_ProfileStrength ==
    lastOp.op = "calculateMetrics" =>
        /\ metrics.strength = StrengthFormula(user)
        /\ metrics.strength \in 0..100
        /\ ( /\ Populated(user) = {}
             /\ Len(user.avatarUrl) <= 50
             /\ \A c \in {"skills", "experience", "education", "projects"} :
                   Count(user, c) = 0 ) => metrics.strength = 0
        /\ ( /\ Populated(user) = Range(requiredFields)
             /\ Len(user.avatarUrl) > 50
             /\ Count(user, "skills") >= 3
             /\ \A c \in {"experience", "education", "projects"} :
                   Count(user, c) >= 1 ) => metrics.strength = 100

C10_Witness ==
    /\ lastOp.op = "calculateMetrics"
    /\ Populated(user) = {"name", "bio"}
    /\ "role" \in DOMAIN user
    /\ "location" \notin DOMAIN user
    /\ Len(user.avatarUrl) = 50
    /\ Count(user, "skills") = 2
    /\ Count(user, "experience") = 1
    /\ Count(user, "projects") = 0
    /\ metrics.strength = 40 + 5 * Count(user, "education")

(***************************************************************************)
(* SpecMetrics: the dashboard's metrics over task lists.  A duration is    *)
(* the sequence of its characters.                                         *)
(***************************************************************************)
MaxDashTasks == 40
MaxDurationTasks == 2

\* The durations the tasks of the model carry: "2 hours", "90 mins", "1h 30m",
\* "5", "", "5 days", "0h", "1.5 hr", "soon", "0", "30m 1h", " 2 HOURS ".
Durations ==
    { <<"2", " ", "h", "o", "u", "r", "s">>,
      <<"9", "0", " ", "m", "i", "n", "s">>,
      <<"1", "h", " ", "3", "0", "m">>,
      <<"5">>,
      << >>,
      <<"5", " ", "d", "a", "y", "s">>,
      <<"0", "h">>,
      <<"1", ".", "5", " ", "h", "r">>,
      <<"s", "o", "o", "n">>,
      <<"0">>,
      <<"3", "0", "m", " ", "1", "h">>,
      <<" ", "2", " ", "H", "O", "U", "R", "S", " ">> }

\* A list of t tasks of which the first d are Done.
CountList(d, t) ==
    [i \in 1..t |->
        [id |-> "t1", title |-> "Read",
         status |-> IF i <= d THEN "Done"
                    ELSE IF i % 2 = 0 THEN "Todo" ELSE "In Progress"]]

DurationTask ==
    [id : {"t1"}, title : {"Read"}, status : {"Todo", "Done"}, duration : Durations]

DashTasks ==
    UNION {{CountList(d, t) : d \in 0..t} : t \in 0..MaxDashTasks} \cup
    UNION {[1..n -> DurationTask] : n \in 1..MaxDurationTasks}

MetricProfiles ==
    { [email |-> "alex@example.com", name |-> n, role |-> n, location |-> n,
       bio |-> n, targetRole |-> n,
       skills |-> Entries(IF n = "Dev" THEN 3 ELSE 0),
       avatarUrl |-> IF n = "Dev"
                     THEN "https://example.com/avatars/alex-mercer-profile-001"
                     ELSE "",
       experience |-> Entries(x), education |-> Entries(x),
       projects |-> Entries(x), joinedDate |-> "March 2023"] :
        n \in FieldStrings, x \in 0..1 }

NextMetrics == calculateMetrics

InitMetrics ==
    /\ InitBackendIdle
    /\ InitDashIdle
    /\ tasks \in DashTasks
    /\ loading = FALSE
    /\ error = Null
    /\ userEmail = "alex@example.com"
    /\ inflight = << >>
    /\ lsTasks = [u \in Emails \cup {MOCK_USER_ID} |-> << >>]
    /\ lastOp = NoOp
    /\ prevTasks = << >>
    /\ origTasks = << >>
    /\ toggleCount = 0
    /\ user \in MetricProfiles
    /\ pending = << >>
    /\ activeModal = Null
    /\ editingItem = << >>
    /\ now = 1
    /\ submits = 0
    /\ InitSession

SpecMetrics == InitMetrics /\ [][NextMetrics]_vars

\* The number of tasks of ts with status Done.
RECURSIVE doneCount(_)
doneCount(ts) ==
    IF ts = << >> THEN 0
    ELSE doneCount(Tail(ts)) + (IF Head(ts).status = "Done" THEN 1 ELSE 0)

\* C11: for any task list, completionRate is round(100 * doneCount / totalCount)
\* when there are tasks and 0 when there are none; totalTasks is the number of
\* tasks and completedTasks the number of Done tasks.
C11_CompletionRate ==
    lastOp.op = "calculateMetrics" =>
        /\ metrics.completionRate =
              IF Len(tasks) > 0
              THEN (200 * doneCount(tasks) + Len(tasks)) \div (2 * Len(tasks))
              ELSE 0
        /\ metrics.totalTasks = Len(tasks)
        /\ metrics.completedTasks = doneCount(tasks)

ReadHours ==
    [d \in { <<"2", " ", "h", "o", "u", "r", "s">>,
             <<"9", "0", " ", "m", "i", "n", "s">>,
             <<"1", "h", " ", "3", "0", "m">>,
             <<"5">>,
             <<"1", ".", "5", " ", "h", "r">>,
             <<"3", "0", "m", " ", "1", "h">>,
             <<" ", "2", " ", "H", "O", "U", "R", "S", " ">> } |->
        CASE d = <<"2", " ", "h", "o", "u", "r", "s">> -> 12000
          [] d = <<"9", "0", " ", "m", "i", "n", "s">> -> 9000
          [] d = <<"1", "h", " ", "3", "0", "m">> -> 9000
          [] d = <<"5">> -> 30000
          [] d = <<"1", ".", "5", " ", "h", "r">> -> 9000
          [] d = <<"3", "0", "m", " ", "1", "h">> -> 9000
          [] OTHER -> 12000]

\* The same with the durations whose hours and minutes sum to zero: "0h", "0".
ReadHoursWithZero ==
    ReadHours @@ [d \in {<<"0", "h">>, <<"0">>} |-> 0]

\* The hours of the Done tasks of ts, in 1/6000 hour.
RECURSIVE DoneHours(_)
DoneHours(ts) ==
    IF ts = << >> THEN 0
    ELSE DoneHours(Tail(ts))
         + (IF Head(ts).status = "Done" /\ "duration" \in DOMAIN Head(ts)
            THEN parseDuration(Head(ts).duration) ELSE 0)

\* C13, as amended: parseDuration returns hours + minutes / 60 for a duration
\* with an hour and/or a minute token and the number for a purely numeric one,
\* when that value is not zero ("2 hours" 2, "90 mins" 1.5, "1h 30m" 1.5,
\* "5" 5); learningHours is the rounded sum of parseDuration over the Done
\* tasks only.
C13_ParseDurationNonZero ==
    lastOp.op = "calculateMetrics" =>
        /\ \A i \in DOMAIN tasks :
              ("duration" \in DOMAIN tasks[i] /\ tasks[i].duration \in DOMAIN ReadHours)
                 => parseDuration(tasks[i].duration) = ReadHours[tasks[i].duration]
        /\ 6000 * metrics.learningHours - 3000 <= DoneHours(tasks)
        /\ DoneHours(tasks) < 6000 * metrics.learningHours + 3000

C13_Witness ==
    /\ lastOp.op = "calculateMetrics"
    /\ Len(tasks) = 2
    /\ "duration" \in DOMAIN tasks[1]
    /\ tasks[1].status = "Done"
    /\ tasks[1].duration = <<"1", ".", "5", " ", "h", "r">>
    /\ tasks[2].status = "Todo"
    /\ tasks[2].duration = <<"5">>
    /\ metrics.learningHours = 2

\* C13, as stated: parseDuration returns hours + minutes / 60 for every duration
\* with an hour and/or a minute token and the number for every purely numeric
\* one.
C13_ParseDuration ==
    lastOp.op = "calculateMetrics" =>
        \A i \in DOMAIN tasks :
           ("duration" \in DOMAIN tasks[i]
               /\ tasks[i].duration \in DOMAIN ReadHoursWithZero)
              => parseDuration(tasks[i].duration) = ReadHoursWithZero[tasks[i].duration]

\* The durations with no hour token, no minute token and not purely numeric:
\* "", "5 days", "soon".
Unparseable ==
    {<< >>, <<"5", " ", "d", "a", "y", "s">>, <<"s", "o", "o", "n">>}

\* C14: parseDuration returns the 1-hour fallback for the empty string and for
\* every unparseable duration, so a completed task never contributes 0 hours.
C14_FallbackOneHour ==
    lastOp.op = "calculateMetrics" =>
        \A i \in DOMAIN tasks :
           "duration" \in DOMAIN tasks[i] =>
              /\ tasks[i].duration \in Unparseable
                    => parseDuration(tasks[i].duration) = 6000
              /\ tasks[i].status = "Done" => taskHours(tasks[i]) > 0

(***************************************************************************)
(* SpecChart: the trend chart over join dates, dates of the day and random *)
(* values.                                                                 *)
(***************************************************************************)
MaxRandom == 2

\* Math.random() in tenths: 0, 0.5 and 0.9.
RandomStreams == UNION {[1..n -> {0, 5, 9}] : n \in 1..MaxRandom}

JoinedDates ==
    {"March 2023", "", "January 2020", "December 2024", "October 2023",
     "February 2024", "soon"}

Todays ==
    { [year |-> 2024, month |-> 2, day |-> 15],
      [year |-> 2024, month |-> 7, day |-> 31],
      [year |-> 2023, month |-> 11, day |-> 1] }

ChartProfiles ==
    {[p EXCEPT !.joinedDate = j] : p \in MetricProfiles, j \in JoinedDates}
    \cup {[f \in DOMAIN p \ {"joinedDate"} |-> p[f]] : p \in MetricProfiles}

NextChart == calculateMetrics

InitChart ==
    /\ InitBackendIdle
    /\ metrics = [strength |-> 0, completionRate |-> 0, completedTasks |-> 0,
                  totalTasks |-> 0, learningHours |-> 0, readinessScore |-> 0,
                  hoursThisWeek |-> 0]
    /\ chartData = << >>
    /\ today \in Todays
    /\ random \in RandomStreams
    /\ InitPageIdle
    /\ tasks \in {CountList(d, 2) : d \in 0..2}
    /\ loading = FALSE
    /\ error = Null
    /\ userEmail = "alex@example.com"
    /\ inflight = << >>
    /\ lsTasks = [u \in Emails \cup {MOCK_USER_ID} |-> << >>]
    /\ lastOp = NoOp
    /\ prevTasks = << >>
    /\ origTasks = << >>
    /\ toggleCount = 0
    /\ user \in ChartProfiles
    /\ pending = << >>
    /\ activeModal = Null
    /\ editingItem = << >>
    /\ now = 1
    /\ submits = 0
    /\ InitSession

SpecChart == InitChart /\ [][NextChart]_vars

\* The month (from 0) and the year the join-date strings name.
JoinedMonth ==
    [j \in {"March 2023", "January 2020", "December 2024", "October 2023",
            "February 2024"} |->
        CASE j = "March 2023" -> <<2, 2023>>
          [] j = "January 2020" -> <<0, 2020>>
          [] j = "December 2024" -> <<11, 2024>>
          [] j = "October 2023" -> <<9, 2023>>
          [] OTHER -> <<1, 2024>>]

\* clamp(x, 3, 12)
Clamp3To12(x) == IF x < 3 THEN 3 ELSE IF x > 12 THEN 12 ELSE x

\* C15: for any join-date string and score S in 0..100, the chart has
\* clamp(monthsElapsed + 1, 3, 12) points (a join date that cannot be read is
\* taken six months back, at most one calendar month less when that day does
\* not exist), the first point's score is 10 and the last point's score is S,
\* whatever the random values are.
C15_TrendChart ==
    lastOp.op = "calculateMetrics" =>
        /\ metrics.readinessScore \in 0..100
        /\ IF "joinedDate" \in DOMAIN user /\ user.joinedDate \in DOMAIN JoinedMonth
           THEN LET jm == JoinedMonth[user.joinedDate]
                    monthsElapsed == (today.year - jm[2]) * 12 + (today.month - jm[1])
                IN Len(chartData) = Clamp3To12(monthsElapsed + 1)
           ELSE Len(chartData) \in {6, 7}
        /\ chartData[1].score = 10
        /\ chartData[Len(chartData)].score = metrics.readinessScore

C15_Witness ==
    /\ lastOp.op = "calculateMetrics"
    /\ "joinedDate" \in DOMAIN user
    /\ user.joinedDate = "October 2023"
    /\ today.year = 2024 /\ today.month = 2
    /\ Len(chartData) = 6
    /\ random = <<9, 0>>
    /\ metrics.readinessScore = 100
    /\ chartData[1].score = 10
    /\ chartData[2].score = 32
    /\ chartData[6].score = 100

\* C29: for every join date that parses, the points are labelled with
\* consecutive calendar months, the first with the join month and the last with
\* the current month, also when the number of points is clamped to 3 or to 12.
C29_MonthLabels ==
    (lastOp.op = "calculateMetrics" /\ ~lastOp.threw
        /\ "joinedDate" \in DOMAIN user /\ user.joinedDate \in DOMAIN JoinedMonth) =>
        /\ chartData[1].name = ShortNames[JoinedMonth[user.joinedDate][1] + 1]
        /\ \A k \in 1..(Len(chartData) - 1) :
              \E m \in 0..11 : /\ chartData[k].name = ShortNames[m + 1]
                               /\ chartData[k + 1].name = ShortNames[((m + 1) % 12) + 1]
        /\ chartData[Len(chartData)].name = ShortNames[today.month + 1]

(***************************************************************************)
(* GapAnalysis.fetchData (part_000:69-137): the roadmap generateRoadmap    *)
(* resolves with is whatever JSON the model returned (part_006:209).       *)
(***************************************************************************)
MaxPhases == 2
MaxPhaseItems == 4

PhaseTitles == <<"Foundation", "Core Tech", "Advanced Concepts", "Capstone & Mastery">>

BaseTitles ==
    <<"Learn SQL", "Build an API", "Mock Interview", "Read the Docs", "Code Review",
      "Portfolio Project", "Find a Mentor">>

\* The words of part_000:112-113 each base title holds once lower-cased.
BaseWords ==
    <<{}, {"build"}, {"interview"}, {}, {"review"}, {"project"}, {"mentor"}>>

\* The title of item i of phase p.
itemTitle(p, i) ==
    BaseTitles[((i - 1) % Len(BaseTitles)) + 1] \o " " \o Digits[p + 1]

\* Each title with the words title.toLowerCase() includes.
TitleWords ==
    {<<BaseTitles[b] \o " " \o Digits[p + 1], BaseWords[b]>> :
        b \in DOMAIN BaseTitles, p \in 1..9}

\* entry.item.title.toLowerCase().includes(word)
includes(title, word) == \E e \in TitleWords : e[1] = title /\ word \in e[2]

\* The statuses of a phase's items: none Completed, every odd one Completed, all
\* but the last Completed, or all Completed.
ItemPatterns == {"open", "mixed", "last", "done"}

\* Item i of phase p; the even items have no subtitle.
Item(p, i, pattern) ==
    [title |-> itemTitle(p, i),
     status |-> CASE pattern = "open" -> "Not Started"
                  [] pattern = "mixed" -> IF i % 2 = 1 THEN "Completed" ELSE "In Progress"
                  [] pattern = "last" -> IF i < MaxPhaseItems THEN "Completed" ELSE "Locked"
                  [] OTHER -> "Completed"]
    @@ (IF i % 2 = 1 THEN [subtitle |-> "2 weeks"] ELSE [k \in {} |-> ""])

\* The statuses of the phase in place p, after the prompt of part_006:156-160
\* (Foundation Completed, Core Tech In Progress, the later ones Locked); "Paused"
\* is a status outside the schema's enum.
PhaseStatuses(p) ==
    CASE p = 1 -> {"Completed", "In Progress", "Paused"}
      [] p = 2 -> {"In Progress", "Locked", "Paused"}
      [] OTHER -> {"Locked"}

\* The phases the model returns in place p: without an items array, with an
\* empty one or with MaxPhaseItems items.
Phases(p) ==
    { [title |-> PhaseTitles[((p - 1) % Len(PhaseTitles)) + 1], duration |-> "6 weeks",
       status |-> st] @@ its :
        st \in PhaseStatuses(p),
        its \in {[k \in {} |-> << >>]} \cup
                (IF p <= 2 THEN {[items |-> << >>]} ELSE {}) \cup
                {[items |-> [i \in 1..MaxPhaseItems |-> Item(p, i, pattern)]] :
                    pattern \in IF p <= 2 THEN ItemPatterns ELSE {"open"}} }

RECURSIVE RoadmapsOf(_)
RoadmapsOf(k) ==
    IF k = 0 THEN {<< >>}
    ELSE {Append(r, ph) : r \in RoadmapsOf(k - 1), ph \in Phases(k)}

Roadmaps == UNION {RoadmapsOf(k) : k \in 0..MaxPhases}

\* part_000:89
counted(phase) == phase.status \in {"In Progress", "Locked", "Completed"}

\* part_000:94 and 103: the entries pushed for the items kept of one phase.
entriesOf(phase, kept) ==
    [i \in DOMAIN kept |->
        [item |-> kept[i], phaseTitle |-> phase.title,
         phaseDuration |-> phase.duration]]

\* part_000:88-98
RECURSIVE collect(_)
collect(roadmapResult) ==
    IF roadmapResult = << >> THEN << >>
    ELSE LET phase == roadmapResult[Len(roadmapResult)]
         IN collect(SubSeq(roadmapResult, 1, Len(roadmapResult) - 1))
            \o (IF counted(phase)
                THEN entriesOf(phase, SelectSeq(phase.items,
                                                LAMBDA item : item.status # "Completed"))
                ELSE << >>)

\* part_000:92 and 102: forEach of an items array that is undefined throws.
throws(roadmapResult) ==
    IF \E p \in DOMAIN roadmapResult :
          counted(roadmapResult[p]) /\ "items" \notin DOMAIN roadmapResult[p]
    THEN TRUE
    ELSE /\ collect(roadmapResult) = << >>
         /\ Len(roadmapResult) > 0
         /\ "items" \notin DOMAIN roadmapResult[1]

\* The mutant of allItemsOf: the fallback keeps the open items only.
allItemsOf_OpenFallback(roadmapResult) ==
    IF collect(roadmapResult) = << >> /\ Len(roadmapResult) > 0
    THEN entriesOf(roadmapResult[1],
                   SelectSeq(roadmapResult[1].items,
                             LAMBDA item : item.status # "Completed"))
    ELSE collect(roadmapResult)

\* part_000:86-105
allItemsOf(roadmapResult) ==
    IF collect(roadmapResult) = << >> /\ Len(roadmapResult) > 0
    THEN entriesOf(roadmapResult[1], roadmapResult[1].items)
    ELSE collect(roadmapResult)

\* part_000:110-113
typeOf(title) ==
    IF includes(title, "project") \/ includes(title, "build") THEN "project"
    ELSE IF includes(title, "mentor") \/ includes(title, "review")
            \/ includes(title, "interview") THEN "mentor"
    ELSE "course"

\* The mutant of tagOf: every action is tagged.
tagOf_All(idx) == "High Impact"

\* part_000:119
tagOf(idx) == IF idx = 0 THEN "High Impact" ELSE ""

\* The mutant of topItemsOf: the first four.
topItemsOf_Four(allItems) == SubSeq(allItems, 1, Min(4, Len(allItems)))

\* part_000:108  allItems.slice(0, 3)
topItemsOf(allItems) == SubSeq(allItems, 1, Min(3, Len(allItems)))

\* part_000:107-129: the actions fetchData sets for a roadmap it can process.
actionsOf(roadmapResult) ==
    LET topItems == topItemsOf(allItemsOf(roadmapResult))
        actions ==
          [k \in DOMAIN topItems |->
             [id |-> k - 1,
              title |-> topItems[k].item.title,
              duration |-> IF "subtitle" \in DOMAIN topItems[k].item
                              /\ topItems[k].item.subtitle # ""
                           THEN topItems[k].item.subtitle
                           ELSE topItems[k].phaseDuration,
              tag |-> tagOf(k - 1),
              type |-> typeOf(topItems[k].item.title)]]
    IN IF Len(actions) = 0
       THEN <<[id |-> 1, title |-> "Start Foundation Phase", duration |-> "4 Weeks",
               tag |-> "High Impact", type |-> "course"]>>
       ELSE actions

gapFrame ==
    <<taskUi, lsTasks, backendVars, profileVars, dashVars, focusVars, authVars, serverVars>>

\* The role fields of the profile; a profile may have neither.
roleOf(u, field) == IF field \in DOMAIN u THEN u[field] ELSE ""

\* part_000:69-77: fetchData up to its first await.  Callers: the effect of
\* 139-145 when the page mounts (the roles do not change afterwards) and Retry
\* (243-254), shown while the error is set.
fetchData ==
    /\ lastOp = NoOp \/ gapError # Null
    /\ roleOf(user, "role") # "" /\ roleOf(user, "targetRole") # ""
    /\ gapLoading' = TRUE
    /\ gapError' = Null
    /\ gapCalls' = Append(gapCalls, "generateGapAnalysis")
    /\ lastOp' = [op |-> "fetchData"]
    /\ UNCHANGED <<analysis, recommendedActions, gapFrame>>

\* part_000:77-81: generateGapAnalysis resolved; generateRoadmap is called.
fetchData_analysed(i, analysisResult) ==
    /\ gapCalls[i] = "generateGapAnalysis"
    /\ analysis' = analysisResult
    /\ gapCalls' = [gapCalls EXCEPT ![i] = "generateRoadmap"]
    /\ lastOp' = [op |-> "analysed"]
    /\ UNCHANGED <<recommendedActions, gapLoading, gapError, gapFrame>>

\* part_000:131-136 with part_006:143-146, 210-213: either request rejected.
fetchData_rejected(i) ==
    /\ gapError' = IF gapCalls[i] = "generateGapAnalysis"
                   THEN "Failed to generate gap analysis via AI."
                   ELSE "Failed to generate roadmap via AI."
    /\ gapLoading' = FALSE
    /\ gapCalls' = RemoveAt(gapCalls, i)
    /\ lastOp' = [op |-> "rejected"]
    /\ UNCHANGED <<analysis, recommendedActions, gapFrame>>

\* part_000:81-136: generateRoadmap resolved with roadmapResult; the actions are
\* set, or the TypeError is caught and its message becomes the error.
fetchData_roadmap(i, roadmapResult) ==
    /\ gapCalls[i] = "generateRoadmap"
    /\ IF throws(roadmapResult)
       THEN /\ gapError' = "TypeError"
            /\ UNCHANGED recommendedActions
       ELSE /\ recommendedActions' = actionsOf(roadmapResult)
            /\ UNCHANGED gapError
    /\ gapLoading' = FALSE
    /\ gapCalls' = RemoveAt(gapCalls, i)
    /\ lastOp' = [op |-> "roadmap", roadmap |-> roadmapResult,
                  threw |-> throws(roadmapResult)]
    /\ UNCHANGED <<analysis, gapFrame>>

\* What generateGapAnalysis resolves with.
Analyses == {[criticalGaps |-> <<[name |-> "System Design"]>>]}

NextGap ==
    \/ fetchData
    \/ \E i \in DOMAIN gapCalls, analysisResult \in Analyses :
          fetchData_analysed(i, analysisResult)
    \/ \E i \in DOMAIN gapCalls : fetchData_rejected(i)
    \/ \E i \in DOMAIN gapCalls, roadmapResult \in Roadmaps :
          fetchData_roadmap(i, roadmapResult)

InitGap ==
    /\ InitTaskIdle
    /\ InitBackendIdle
    /\ InitDashIdle
    /\ user \in {[initialUser EXCEPT !.name = "Alex"] @@ roles :
                   roles \in {[k \in {} |-> ""],
                              [role |-> "QA Engineer", targetRole |-> ""],
                              [role |-> "QA Engineer", targetRole |-> "SDET"]}}
    /\ pending = << >>
    /\ activeModal = Null
    /\ editingItem = << >>
    /\ now = 1
    /\ submits = 0
    /\ InitSession

SpecGap == InitGap /\ [][NextGap]_vars

\* The titles of the items of a roadmap that are not Completed, in phase order
\* then item order.
RECURSIVE OpenTitles(_)
OpenTitles(r) ==
    IF r = << >> THEN << >>
    ELSE LET open == SelectSeq(Head(r).items, LAMBDA it : it.status # "Completed")
         IN [i \in DOMAIN open |-> open[i].title] \o OpenTitles(Tail(r))

\* Every phase has one of the three statuses and an array of titled items.
WellFormed(r) ==
    \A p \in DOMAIN r :
       /\ r[p].status \in {"Completed", "In Progress", "Locked"}
       /\ "items" \in DOMAIN r[p]

\* C16: for a roadmap whose phases all have a status in {Completed, In Progress,
\* Locked} and which has n >= 1 items that are not Completed, the recommended
\* actions are the first min(3, n) of these items in phase order then item order,
\* the first tagged "High Impact" and the others with an empty tag; with phase 1
\* Completed throughout and phase 2 In Progress with at least 4 items, none
\* Completed, they are the first 3 items of phase 2.
C16_TopThreeOpenItems ==
    (lastOp.op = "roadmap" /\ WellFormed(lastOp.roadmap)
        /\ Len(OpenTitles(lastOp.roadmap)) >= 1) =>
        LET r == lastOp.roadmap
            open == OpenTitles(r)
            m == IF Len(open) < 3 THEN Len(open) ELSE 3
        IN /\ ~lastOp.threw
           /\ Len(recommendedActions) = m
           /\ \A k \in 1..m :
                 /\ recommendedActions[k].title = open[k]
                 /\ recommendedActions[k].tag = IF k = 1 THEN "High Impact" ELSE ""
           /\ ( /\ Len(r) = 2
                /\ r[1].status = "Completed"
                /\ \A i \in DOMAIN r[1].items : r[1].items[i].status = "Completed"
                /\ r[2].status = "In Progress"
                /\ Len(r[2].items) >= 4
                /\ \A i \in DOMAIN r[2].items : r[2].items[i].status # "Completed" )
              => [k \in 1..3 |-> recommendedActions[k].title]
                    = [k \in 1..3 |-> r[2].items[k].title]

C16_Witness ==
    /\ lastOp.op = "roadmap"
    /\ Len(lastOp.roadmap) = 2
    /\ WellFormed(lastOp.roadmap)
    /\ lastOp.roadmap[1].status = "Completed"
    /\ Len(lastOp.roadmap[1].items) = MaxPhaseItems
    /\ \A i \in DOMAIN lastOp.roadmap[1].items :
          lastOp.roadmap[1].items[i].status = "Completed"
    /\ lastOp.roadmap[2].status = "In Progress"
    /\ Len(lastOp.roadmap[2].items) = MaxPhaseItems
    /\ \A i \in DOMAIN lastOp.roadmap[2].items :
          lastOp.roadmap[2].items[i].status = "Not Started"
    /\ Len(recommendedActions) = 3
    /\ recommendedActions[1].tag = "High Impact"
    /\ recommendedActions[3].title = lastOp.roadmap[2].items[3].title

\* C17: on an empty phases array the actions are exactly the one fallback action
\* (title "Start Foundation Phase", duration "4 Weeks", tag "High Impact", type
\* course), and for every roadmap whose processing succeeds the list has between
\* 1 and 3 entries.
C17_FallbackAndSize ==
    (lastOp.op = "roadmap" /\ ~lastOp.threw) =>
        /\ Len(recommendedActions) \in 1..3
        /\ lastOp.roadmap = << >> =>
              /\ Len(recommendedActions) = 1
              /\ recommendedActions[1].title = "Start Foundation Phase"
              /\ recommendedActions[1].duration = "4 Weeks"
              /\ recommendedActions[1].tag = "High Impact"
              /\ recommendedActions[1].type = "course"

C17_Witness ==
    /\ lastOp.op = "roadmap"
    /\ lastOp.roadmap = << >>
    /\ ~lastOp.threw
    /\ gapError = Null
    /\ Len(recommendedActions) = 1
    /\ recommendedActions[1].title = "Start Foundation Phase"

\* C18: for a roadmap with a phase without an items field or an item without a
\* subtitle, processing still sets a recommended-actions list and does not end
\* in the error state.
C18_ToleratesMalformed ==
    lastOp.op = "roadmap" =>
        /\ ~lastOp.threw
        /\ Len(recommendedActions) \in 1..3

(***************************************************************************)
(* Tasks: getSmartFocusArea (part_002:28-54) and the effect that calls it  *)
(* (part_002:15-25).  A JSON value is a record with its kind.              *)
(***************************************************************************)
JNull == [kind |-> "null"]
JStr(str) == [kind |-> "string", str |-> str]
JArr(items) == [kind |-> "array", items |-> items]
JObj(fields) == [kind |-> "object", fields |-> fields]
SyntaxError == [kind |-> "SyntaxError"]

\* The texts a cache may hold that JSON.parse reads, each with its value.
JSONTexts ==
    { <<"[{\"status\":\"Completed\",\"title\":\"Foundation\"},{\"status\":\"In Progress\",\"title\":\"Core Tech\"}]",
        JArr(<<JObj([status |-> JStr("Completed"), title |-> JStr("Foundation")]),
               JObj([status |-> JStr("In Progress"), title |-> JStr("Core Tech")])>>)>>,
      <<"[{\"status\":\"In Progress\",\"title\":\"Core Tech\"},{\"status\":\"In Progress\",\"title\":\"Advanced Concepts\"}]",
        JArr(<<JObj([status |-> JStr("In Progress"), title |-> JStr("Core Tech")]),
               JObj([status |-> JStr("In Progress"), title |-> JStr("Advanced Concepts")])>>)>>,
      <<"[{\"status\":\"Locked\",\"title\":\"Core Tech\"}]",
        JArr(<<JObj([status |-> JStr("Locked"), title |-> JStr("Core Tech")])>>)>>,
      <<"[]", JArr(<< >>)>>,
      <<"null", JNull>>,
      <<"{}", JObj([k \in {} |-> JNull])>>,
      <<"[{\"status\":\"In Progress\"}]",
        JArr(<<JObj([status |-> JStr("In Progress")])>>)>>,
      <<"[{\"status\":\"In Progress\",\"title\":\"\"}]",
        JArr(<<JObj([status |-> JStr("In Progress"), title |-> JStr("")])>>)>>,
      <<"[null,{\"status\":\"In Progress\",\"title\":\"Core Tech\"}]",
        JArr(<<JNull, JObj([status |-> JStr("In Progress"), title |-> JStr("Core Tech")])>>)>>,
      <<"{\"criticalGaps\":[{\"name\":\"System Design\"},{\"name\":\"Testing\"}]}",
        JObj([criticalGaps |-> JArr(<<JObj([name |-> JStr("System Design")]),
                                      JObj([name |-> JStr("Testing")])>>)])>>,
      <<"{\"criticalGaps\":[]}", JObj([criticalGaps |-> JArr(<< >>)])>>,
      <<"{\"criticalGaps\":[{\"id\":\"1\"}]}",
        JObj([criticalGaps |-> JArr(<<JObj([id |-> JStr("1")])>>)])>>,
      <<"{\"criticalGaps\":[null]}", JObj([criticalGaps |-> JArr(<<JNull>>)])>> }

\* JSON.parse(text); it throws a SyntaxError for any other text of the model.
JSONParse(text) ==
    IF \E e \in JSONTexts : e[1] = text
    THEN (CHOOSE e \in JSONTexts : e[1] = text)[2]
    ELSE SyntaxError

\* `${user.field}`
template(u, field) == IF field \in DOMAIN u THEN u[field] ELSE "undefined"

\* part_002:30
roadmapKey(u) ==
    "careerpilot_roadmap_v2_" \o template(u, "email") \o "_" \o template(u, "role")
        \o "_" \o template(u, "targetRole")

\* part_002:41
analysisKey(u) ==
    "careerpilot_analysis_v2_" \o template(u, "email") \o "_" \o template(u, "role")
        \o "_" \o template(u, "targetRole")

\* localStorage.getItem(key) as the tests of part_002:32 and 43 see it: null and
\* the empty text are both falsy.
getItem(key) == IF key \in DOMAIN localStorage THEN localStorage[key] ELSE ""

\* v.field of an object; undefined is Absent.
member(v, field) ==
    IF v.kind = "object" /\ field \in DOMAIN v.fields /\ v.fields[field].kind = "string"
    THEN v.fields[field].str
    ELSE Absent

\* part_002:32-38: <<the value returned>>, or << >> when evaluation goes on: no
\* text, a text that does not parse, a value without find, a null entry met by
\* the callback (p.status throws) or no phase In Progress.
roadmapRule(cachedRoadmap) ==
    LET roadmap == JSONParse(cachedRoadmap)
        active == IF roadmap.kind = "array"
                  THEN {p \in DOMAIN roadmap.items :
                          /\ \A q \in 1..p : roadmap.items[q].kind # "null"
                          /\ member(roadmap.items[p], "status") = "In Progress"
                          /\ \A q \in 1..(p - 1) :
                                member(roadmap.items[q], "status") # "In Progress"}
                  ELSE {}
    IN IF cachedRoadmap = "" \/ active = {} THEN << >>
       ELSE <<member(roadmap.items[CHOOSE p \in active : TRUE], "title")>>

\* part_002:43-50: likewise for the analysis.
analysisRule(cachedAnalysis) ==
    LET parsed == JSONParse(cachedAnalysis)
        gaps == IF parsed.kind = "object" /\ "criticalGaps" \in DOMAIN parsed.fields
                   /\ parsed.fields.criticalGaps.kind = "array"
                THEN parsed.fields.criticalGaps.items ELSE << >>
    IN IF cachedAnalysis = "" \/ gaps = << >> \/ gaps[1].kind = "null" THEN << >>
       ELSE <<"Closing Skill Gap: "
              \o (IF member(gaps[1], "name") = Absent THEN "undefined"
                  ELSE member(gaps[1], "name"))>>

\* The mutant of getSmartFocusArea: the analysis is looked at first.
getSmartFocusArea_AnalysisFirst ==
    IF analysisRule(getItem(analysisKey(user))) # << >>
    THEN analysisRule(getItem(analysisKey(user)))[1]
    ELSE IF roadmapRule(getItem(roadmapKey(user))) # << >>
         THEN roadmapRule(getItem(roadmapKey(user)))[1]
         ELSE "Core Competencies & Growth"

\* part_002:28-54
getSmartFocusArea ==
    IF roadmapRule(getItem(roadmapKey(user))) # << >>
    THEN roadmapRule(getItem(roadmapKey(user)))[1]
    ELSE IF analysisRule(getItem(analysisKey(user))) # << >>
         THEN analysisRule(getItem(analysisKey(user)))[1]
         ELSE "Core Competencies & Growth"

\* part_002:15-25: the effect sets the focus area and, once, with no tasks, no
\* error and nothing loading, calls generateNewTasks (TaskContext.tsx:62-67).
Tasks_effect ==
    /\ focusArea' = getSmartFocusArea
    /\ IF ~loading /\ tasks = << >> /\ error = Null /\ ~hasGeneratedRef
          /\ template(user, "email") \notin {"", "undefined"}
       THEN /\ hasGeneratedRef' = TRUE
            /\ loading' = TRUE
            /\ inflight' = Append(inflight, [kind |-> "generate", email |-> user.email,
                                             focusArea |-> getSmartFocusArea])
       ELSE UNCHANGED <<hasGeneratedRef, loading, inflight>>
    /\ lastOp' = [op |-> "Tasks_effect"]
    /\ UNCHANGED <<tasks, error, userEmail, lsTasks, prevTasks, origTasks, toggleCount,
                   backendVars, profileVars, dashVars, gapVars, localStorage, authVars,
                   serverVars>>

\* The texts the caches of the model hold, and the mark of a key with no item.
NoItem == "(no item)"

RoadmapTexts ==
    { NoItem, "", "not json", "null", "{}", "[]",
      "[{\"status\":\"Completed\",\"title\":\"Foundation\"},{\"status\":\"In Progress\",\"title\":\"Core Tech\"}]",
      "[{\"status\":\"In Progress\",\"title\":\"Core Tech\"},{\"status\":\"In Progress\",\"title\":\"Advanced Concepts\"}]",
      "[{\"status\":\"Locked\",\"title\":\"Core Tech\"}]",
      "[{\"status\":\"In Progress\"}]",
      "[{\"status\":\"In Progress\",\"title\":\"\"}]",
      "[null,{\"status\":\"In Progress\",\"title\":\"Core Tech\"}]" }

AnalysisTexts ==
    { NoItem, "", "not json", "null", "{}", "[]",
      "{\"criticalGaps\":[{\"name\":\"System Design\"},{\"name\":\"Testing\"}]}",
      "{\"criticalGaps\":[]}",
      "{\"criticalGaps\":[{\"id\":\"1\"}]}",
      "{\"criticalGaps\":[null]}" }

FocusUsers ==
    {[initialUser EXCEPT !.name = "Alex"]
       @@ [email |-> "alex@example.com", role |-> "QA Engineer", targetRole |-> t] :
        t \in {"SDET", "Engineering Manager"}}

\* The stores with a roadmap and an analysis text, or none, for each user.
Stores ==
    { [k \in {k \in DOMAIN f : f[k] # NoItem} |-> f[k]] :
        f \in { [k \in {roadmapKey(u) : u \in FocusUsers}
                        \cup {analysisKey(u) : u \in FocusUsers} |->
                   IF \E u \in FocusUsers : k = roadmapKey(u)
                   THEN rt[CHOOSE u \in FocusUsers : k = roadmapKey(u)]
                   ELSE at[CHOOSE u \in FocusUsers : k = analysisKey(u)]] :
                rt \in [FocusUsers -> RoadmapTexts],
                at \in [FocusUsers -> AnalysisTexts] } }

NextFocus == Tasks_effect

InitFocus ==
    /\ InitBackendIdle
    /\ metrics = [strength |-> 0, completionRate |-> 0, completedTasks |-> 0,
                  totalTasks |-> 0, learningHours |-> 0, readinessScore |-> 0,
                  hoursThisWeek |-> 0]
    /\ chartData = << >>
    /\ today = [year |-> 2024, month |-> 2, day |-> 15]
    /\ random = <<5>>
    /\ analysis = Null
    /\ recommendedActions = << >>
    /\ gapLoading = FALSE
    /\ gapError = Null
    /\ gapCalls = << >>
    /\ localStorage \in Stores
    /\ focusArea = ""
    /\ hasGeneratedRef = FALSE
    /\ putCalls = << >>
    /\ poolInUse = 0
    /\ tasks = << >>
    /\ loading = FALSE
    /\ error = Null
    /\ userEmail = "alex@example.com"
    /\ inflight = << >>
    /\ lsTasks = [u \in Emails \cup {MOCK_USER_ID} |-> << >>]
    /\ lastOp = NoOp
    /\ prevTasks = << >>
    /\ origTasks = << >>
    /\ toggleCount = 0
    /\ user \in FocusUsers
    /\ pending = << >>
    /\ activeModal = Null
    /\ editingItem = << >>
    /\ now = 1
    /\ submits = 0
    /\ InitSession

SpecFocus == InitFocus /\ [][NextFocus]_vars

\* The text cached for the user under a key prefix, NoItem when there is none.
CachedText(prefix) ==
    LET key == prefix \o user.email \o "_" \o user.role \o "_" \o user.targetRole
    IN IF key \in DOMAIN localStorage THEN localStorage[key] ELSE NoItem

\* The roadmap texts that are arrays of phases with a phase In Progress, with
\* the title of the first such phase.
ActiveTitle ==
    [t \in { "[{\"status\":\"Completed\",\"title\":\"Foundation\"},{\"status\":\"In Progress\",\"title\":\"Core Tech\"}]",
             "[{\"status\":\"In Progress\",\"title\":\"Core Tech\"},{\"status\":\"In Progress\",\"title\":\"Advanced Concepts\"}]" }
        |-> "Core Tech"]

\* No roadmap is cached, or one that is an array of phases none In Progress.
NoActivePhase ==
    CachedText("careerpilot_roadmap_v2_")
        \in {NoItem, "[]", "[{\"status\":\"Locked\",\"title\":\"Core Tech\"}]"}

\* The analysis texts with a non-empty criticalGaps list of named gaps, with
\* the name of the first gap.
FirstGap ==
    [t \in {"{\"criticalGaps\":[{\"name\":\"System Design\"},{\"name\":\"Testing\"}]}"}
        |-> "System Design"]

\* No analysis is cached, or one with no or an empty criticalGaps list.
NoGaps ==
    CachedText("careerpilot_analysis_v2_") \in {NoItem, "{}", "{\"criticalGaps\":[]}"}

\* The roadmap cache is absent, empty, unparseable or of the wrong shape.
RoadmapMiss ==
    CachedText("careerpilot_roadmap_v2_")
        \in {NoItem, "", "not json", "null", "{}", "[{\"status\":\"In Progress\"}]",
             "[null,{\"status\":\"In Progress\",\"title\":\"Core Tech\"}]"}

\* The analysis cache is absent, empty, unparseable or of the wrong shape.
AnalysisMiss ==
    CachedText("careerpilot_analysis_v2_")
        \in {NoItem, "", "not json", "null", "[]", "{\"criticalGaps\":[{\"id\":\"1\"}]}",
             "{\"criticalGaps\":[null]}"}

\* C19: over the caches keyed by the user's email, role and target role, a
\* cached roadmap with a phase In Progress gives that phase's title whatever the
\* cached analysis; otherwise a cached analysis with a non-empty criticalGaps
\* list gives "Closing Skill Gap: " and the first gap's name; otherwise the
\* result is "Core Competencies & Growth".
C19_PriorityChain ==
    lastOp.op = "Tasks_effect" =>
        LET rt == CachedText("careerpilot_roadmap_v2_")
            at == CachedText("careerpilot_analysis_v2_")
        IN /\ rt \in DOMAIN ActiveTitle => focusArea = ActiveTitle[rt]
           /\ (NoActivePhase /\ at \in DOMAIN FirstGap)
                 => focusArea = "Closing Skill Gap: " \o FirstGap[at]
           /\ (NoActivePhase /\ NoGaps) => focusArea = "Core Competencies & Growth"

C19_Witness ==
    /\ lastOp.op = "Tasks_effect"
    /\ CachedText("careerpilot_roadmap_v2_") \in DOMAIN ActiveTitle
    /\ CachedText("careerpilot_analysis_v2_") \in DOMAIN FirstGap
    /\ user.targetRole = "SDET"
    /\ focusArea = "Core Tech"
    /\ hasGeneratedRef

\* C20: a cached roadmap or analysis that is unparseable or of the wrong shape
\* is a cache miss and evaluation falls through to the next rule: with both
\* caches missed the result is "Core Competencies & Growth", and with the
\* roadmap missed and a valid analysis it is the "Closing Skill Gap: ..." text.
C20_MalformedIsMiss ==
    lastOp.op = "Tasks_effect" =>
        LET at == CachedText("careerpilot_analysis_v2_")
        IN /\ (RoadmapMiss /\ at \in DOMAIN FirstGap)
                 => focusArea = "Closing Skill Gap: " \o FirstGap[at]
           /\ (RoadmapMiss /\ (AnalysisMiss \/ NoGaps))
                 => focusArea = "Core Competencies & Growth"
           /\ (NoActivePhase /\ AnalysisMiss) => focusArea = "Core Competencies & Growth"

\* C21: for every content of the roadmap and analysis caches, getSmartFocusArea
\* returns a non-empty string (the focus area the effect sets is neither
\* undefined nor the empty text).
C21_NonEmptyString ==
    lastOp.op = "Tasks_effect" => focusArea \notin {"", Absent}

\* Step 1 collects nothing from r: no phase with one of the three statuses has
\* an item that is not Completed.
StepOneEmpty(r) ==
    \A p \in DOMAIN r :
       r[p].status \in {"In Progress", "Locked", "Completed"} =>
          \A i \in DOMAIN r[p].items : r[p].items[i].status = "Completed"

\* C28: for a roadmap of at least one phase from which step 1 collects no item,
\* the actions are the first up to three items of the first phase in item order,
\* whatever their status; the action "Start Foundation Phase" is set only when
\* the first phase has no item either.
C28_FirstPhaseFallback ==
    (lastOp.op = "roadmap" /\ ~lastOp.threw /\ Len(lastOp.roadmap) >= 1) =>
        LET r == lastOp.roadmap
            first == r[1].items
            m == IF Len(first) < 3 THEN Len(first) ELSE 3
        IN /\ StepOneEmpty(r) =>
                IF m = 0
                THEN /\ Len(recommendedActions) = 1
                     /\ recommendedActions[1].title = "Start Foundation Phase"
                ELSE /\ Len(recommendedActions) = m
                     /\ \A k \in 1..m :
                           recommendedActions[k].title = first[k].title
           /\ recommendedActions[1].title = "Start Foundation Phase" =>
                 StepOneEmpty(r) /\ first = << >>

\* The first phase is Completed with every item Completed and the second one
\* has no open item: the actions are the first three items of the first phase.
C28_Witness ==
    /\ lastOp.op = "roadmap"
    /\ ~lastOp.threw
    /\ Len(lastOp.roadmap) = 2
    /\ StepOneEmpty(lastOp.roadmap)
    /\ lastOp.roadmap[1].status = "Completed"
    /\ Len(lastOp.roadmap[1].items) = MaxPhaseItems
    /\ lastOp.roadmap[2].status = "In Progress"
    /\ Len(recommendedActions) = 3
    /\ recommendedActions[3].title = lastOp.roadmap[1].items[3].title

(***************************************************************************)
(* The dashboard of a profile whose collections may be absent: SpecSnapshot.*)
(***************************************************************************)

\* The collections of a profile that calculateProfileStrength and
\* calculateMetrics read (part_003:268-273, 349).
SnapshotCollections == {"skills", "experience", "education", "projects"}

\* Profiles restored from the users store (UserContext.tsx:37-38; api.ts:143-144
\* returns the stored records as they parse), each collection an array or
\* missing from the record.
SnapshotProfiles ==
    { [email |-> "alex@example.com", name |-> "Dev", role |-> "Dev",
       joinedDate |-> "March 2023"]
      @@ [f \in present |-> Entries(n)] :
        present \in SUBSET SnapshotCollections, n \in 0..MaxEntries }

\* Lists of up to MaxDurationTasks tasks, d of them Done.
SnapshotTasks == {CountList(d, t) : d \in 0..MaxDurationTasks, t \in 0..MaxDurationTasks} \ {<< >>}

NextSnapshot == calculateMetrics

InitSnapshot ==
    /\ InitBackendIdle
    /\ InitDashIdle
    /\ tasks \in SnapshotTasks
    /\ loading = FALSE
    /\ error = Null
    /\ userEmail = "alex@example.com"
    /\ inflight = << >>
    /\ lsTasks = [u \in Emails \cup {MOCK_USER_ID} |-> << >>]
    /\ lastOp = NoOp
    /\ prevTasks = << >>
    /\ origTasks = << >>
    /\ toggleCount = 0
    /\ user \in SnapshotProfiles
    /\ pending = << >>
    /\ activeModal = Null
    /\ editingItem = << >>
    /\ now = 1
    /\ submits = 0
    /\ InitSession

SpecSnapshot == InitSnapshot /\ [][NextSnapshot]_vars

\* C22: calculateMetrics treats an absent skills, experience, education or
\* projects collection as an empty one and still publishes the snapshot of the
\* present profile and tasks (baseKnowledge 0 without experience) and its chart.
C22_AbsentCollectionsAsEmpty ==
    lastOp.op = "calculateMetrics" =>
        /\ metrics.strength = calculateProfileStrength(user)
        /\ metrics.totalTasks = Len(tasks)
        /\ metrics.completedTasks = doneCount(tasks)
        /\ metrics.readinessScore =
              Min(100, (3 * metrics.strength + 5 * metrics.completionRate
                        + (IF Count(user, "experience") >= 1 THEN 200 ELSE 0)
                        + 5) \div 10)
        /\ Len(chartData) >= 3

\* The same for the profiles that do have an experience collection, whatever
\* else is absent.
C22_WithExperience ==
    "experience" \in DOMAIN user => C22_AbsentCollectionsAsEmpty

(***************************************************************************)
(* Profile.tsx:144-152: the skill handlers of the Profile page: SpecSkills. *)
(***************************************************************************)

\* The names typed into the skill field (Profile.tsx:391); '' is the empty field.
SkillNames == {"", "React", "Go"}

SkillCategories == {"Technical", "Soft"}

userFrame == <<activeModal, editingItem, now, backendVars, taskUi, lsTasks, dashVars, pageVars>>

\* Profile.tsx:144-148
handleAddSkill(skillName, category) ==
    LET newSkill == [name |-> skillName, category |-> category,
                     level |-> "Intermediate", verified |-> FALSE]
    IN IF skillName = ""
       THEN /\ lastOp' = [op |-> "handleAddSkill", skillName |-> skillName,
                          before |-> user.skills]
            /\ UNCHANGED <<user, pending, submits, userFrame>>
       ELSE /\ updateUser([skills |-> Append(user.skills, newSkill)])
            /\ lastOp' = [op |-> "handleAddSkill", skillName |-> skillName,
                          before |-> user.skills]
            /\ UNCHANGED userFrame

\* Profile.tsx:150-152
handleRemoveSkill(skillName) ==
    /\ updateUser([skills |-> SelectSeq(user.skills, LAMBDA sk : sk.name # skillName)])
    /\ lastOp' = [op |-> "handleRemoveSkill", skillName |-> skillName]
    /\ UNCHANGED userFrame

NextSkills ==
    \/ \E skillName \in SkillNames, category \in SkillCategories :
          handleAddSkill(skillName, category)
    \/ \E i \in DOMAIN user.skills : handleRemoveSkill(user.skills[i].name)
    \/ \E i \in DOMAIN pending : updateUser_persisted(i)

\* A seed user signed in and on the Profile page; the names of the stored skills
\* are distinct.
InitSkills ==
    /\ InitTaskIdle
    /\ InitBackend
    /\ InitDashIdle
    /\ user \in SignedInUsers
    /\ pending = << >>
    /\ activeModal = Null
    /\ editingItem = << >>
    /\ now = 1
    /\ submits = 0
    /\ InitSession

SpecSkills == InitSkills /\ [][NextSkills]_vars

\* C30: starting from skills with distinct names, under any sequence of
\* handleAddSkill and handleRemoveSkill the names of user.skills stay pairwise
\* distinct; handleAddSkill with an empty name leaves the skills as they were,
\* and after handleRemoveSkill(name) no skill has that name.
C30_SkillNamesUnique ==
    /\ \A i, j \in DOMAIN user.skills :
          i # j => user.skills[i].name # user.skills[j].name
    /\ (lastOp.op = "handleAddSkill" /\ lastOp.skillName = "") =>
          user.skills = lastOp.before
    /\ lastOp.op = "handleRemoveSkill" =>
          \A i \in DOMAIN user.skills : user.skills[i].name # lastOp.skillName

\* The two parts of C30 that do not depend on a test for duplicates.
C30_EmptyAddAndRemove ==
    /\ (lastOp.op = "handleAddSkill" /\ lastOp.skillName = "") =>
          user.skills = lastOp.before
    /\ lastOp.op = "handleRemoveSkill" =>
          \A i \in DOMAIN user.skills : user.skills[i].name # lastOp.skillName

(***************************************************************************)
(* UserContext.tsx:50-84 on the mock backend (api.ts:156-183, 296-321):    *)
(* login, register and logout: SpecAuth.                                   *)
(***************************************************************************)
MaxAuthCalls == 2

\* The addresses and passwords typed into the sign-in and sign-up forms.
FormEmails == Emails \cup {"sam@example.com"}
FormPasswords == {"password", "letmein"}

\* api.ts:174-183  users.find(u => u.email === email && u.password === password):
\* the place of the record, 0 when login throws "Invalid credentials".
MockBackend_login(users, passwords, email, password) ==
    IF findIndex(users, email) # 0 /\ passwords[email] = password
    THEN findIndex(users, email) ELSE 0

\* api.ts:162-167  newUser
newUser(name, email) == [EMPTY_USER_DATA EXCEPT !.name = name, !.email = email]

\* userData.email || email  (UserContext.tsx:56, 71)
sessionEmail(userData, email) == IF userData.email # "" THEN userData.email ELSE email

\* What a rejected call must leave as it was.
AuthState ==
    [user |-> user, isAuthenticated |-> isAuthenticated, activeUser |-> activeUser,
     lsUsers |-> lsUsers, lsPasswords |-> lsPasswords]

authFrame ==
    <<pending, activeModal, editingItem, now, submits, dbVars, USE_REAL_BACKEND,
      taskUi, lsTasks, dashVars, gapVars, focusVars, serverVars>>

\* UserContext.tsx:50-53: setLoading(true) and the call of api.auth.login.
login(email, password) ==
    /\ Len(authCalls) < MaxAuthCalls
    /\ userLoading' = TRUE
    /\ authCalls' = Append(authCalls,
                           [kind |-> "login", email |-> email, password |-> password])
    /\ lastOp' = [op |-> "login"]
    /\ UNCHANGED <<user, isAuthenticated, activeUser, lsUsers, lsPasswords, authFrame>>

\* UserContext.tsx:53-56, 60-62: the timer of api.ts:299-306 fires and
\* mockService.login returns the profile.
login_resolved(i) ==
    LET c == authCalls[i]
        k == MockBackend_login(lsUsers, lsPasswords, c.email, c.password)
    IN /\ c.kind = "login"
       /\ k # 0
       /\ user' = lsUsers[k]
       /\ isAuthenticated' = TRUE
       /\ activeUser' = sessionEmail(lsUsers[k], c.email)
       /\ userLoading' = FALSE
       /\ authCalls' = RemoveAt(authCalls, i)
       /\ lastOp' = [op |-> "login_resolved", email |-> c.email,
                     password |-> c.password]
       /\ UNCHANGED <<lsUsers, lsPasswords, authFrame>>

\* The mutant of login_rejected: the failed attempt also ends the session.
login_rejected_EndsSession(i) ==
    LET c == authCalls[i]
        k == MockBackend_login(lsUsers, lsPasswords, c.email, c.password)
    IN /\ c.kind = "login"
       /\ k = 0
       /\ userLoading' = FALSE
       /\ isAuthenticated' = FALSE
       /\ activeUser' = Null
       /\ authCalls' = RemoveAt(authCalls, i)
       /\ lastOp' = [op |-> "login_rejected", thrown |-> "Invalid credentials",
                     before |-> AuthState]
       /\ UNCHANGED <<user, lsUsers, lsPasswords, authFrame>>

\* UserContext.tsx:57-62: mockService.login throws; the error is logged and
\* thrown again, and finally sets loading to false.
login_rejected(i) ==
    LET c == authCalls[i]
        k == MockBackend_login(lsUsers, lsPasswords, c.email, c.password)
    IN /\ c.kind = "login"
       /\ k = 0
       /\ userLoading' = FALSE
       /\ authCalls' = RemoveAt(authCalls, i)
       /\ lastOp' = [op |-> "login_rejected", thrown |-> "Invalid credentials",
                     before |-> AuthState]
       /\ UNCHANGED <<user, isAuthenticated, activeUser, lsUsers, lsPasswords, authFrame>>

\* UserContext.tsx:65-68: setLoading(true) and the call of api.auth.register.
register(name, email, password) ==
    /\ Len(authCalls) < MaxAuthCalls
    /\ userLoading' = TRUE
    /\ authCalls' = Append(authCalls,
                           [kind |-> "register", name |-> name, email |-> email,
                            password |-> password])
    /\ lastOp' = [op |-> "register"]
    /\ UNCHANGED <<user, isAuthenticated, activeUser, lsUsers, lsPasswords, authFrame>>

\* UserContext.tsx:68-71, 75-77 with api.ts:156-172: the record is pushed to the
\* users store and becomes the user.
register_resolved(i) ==
    LET c == authCalls[i] IN
    /\ c.kind = "register"
    /\ findIndex(lsUsers, c.email) = 0
    /\ lsUsers' = Append(lsUsers, newUser(c.name, c.email))
    /\ lsPasswords' = [e \in DOMAIN lsPasswords \cup {c.email} |->
                         IF e = c.email THEN c.password ELSE lsPasswords[e]]
    /\ user' = newUser(c.name, c.email)
    /\ isAuthenticated' = TRUE
    /\ activeUser' = sessionEmail(newUser(c.name, c.email), c.email)
    /\ userLoading' = FALSE
    /\ authCalls' = RemoveAt(authCalls, i)
    /\ lastOp' = [op |-> "register_resolved", email |-> c.email]
    /\ UNCHANGED authFrame

\* UserContext.tsx:72-77 with api.ts:158-160: "User already exists" is thrown.
register_rejected(i) ==
    LET c == authCalls[i] IN
    /\ c.kind = "register"
    /\ findIndex(lsUsers, c.email) # 0
    /\ userLoading' = FALSE
    /\ authCalls' = RemoveAt(authCalls, i)
    /\ lastOp' = [op |-> "register_rejected", thrown |-> "User already exists",
                  before |-> AuthState]
    /\ UNCHANGED <<user, isAuthenticated, activeUser, lsUsers, lsPasswords, authFrame>>

\* UserContext.tsx:80-84
logout ==
    /\ isAuthenticated
    /\ user' = initialUser
    /\ isAuthenticated' = FALSE
    /\ activeUser' = Null
    /\ lastOp' = [op |-> "logout"]
    /\ UNCHANGED <<userLoading, authCalls, lsUsers, lsPasswords, authFrame>>

NextAuth ==
    \/ \E email \in FormEmails, password \in FormPasswords : login(email, password)
    \/ \E i \in DOMAIN authCalls : login_resolved(i)
    \/ \E i \in DOMAIN authCalls : login_rejected(i)
    \/ \E email \in FormEmails, password \in FormPasswords :
          register("Sam", email, password)
    \/ \E i \in DOMAIN authCalls : register_resolved(i)
    \/ \E i \in DOMAIN authCalls : register_rejected(i)
    \/ logout

\* The shipped build with the seed users stored, nobody signed in and no
\* session key: checkSession has set loading to false (UserContext.tsx:33-45).
InitAuth ==
    /\ InitTaskIdle
    /\ InitBackend
    /\ USE_REAL_BACKEND = FALSE
    /\ InitDashIdle
    /\ InitProfileIdle
    /\ InitSession

SpecAuth == InitAuth /\ [][NextAuth]_vars

C27_WitnessRegister ==
    /\ lastOp.op = "register_rejected"
    /\ Len(lsUsers) = 3
    /\ authCalls = << >>

(***************************************************************************)
(* The record updateUser writes to (UserContext.tsx:86-97, api.ts:328-335):*)
(* SpecIdentity.                                                           *)
(***************************************************************************)

\* part_006:249-258, 334-378: the schema has an optional email, which the
\* profile analyzeResume returns carries when the resume shows one.
resumeProfile(email) == spread(analyzeResume, [email |-> email])

\* Profile.tsx:28-40: reader.onloadend with a profile that carries an email.
handleFileUpload_email(email) ==
    /\ updateUser(resumeProfile(email))
    /\ lastOp' = [op |-> "handleFileUpload", email |-> email]
    /\ UNCHANGED <<activeModal, editingItem, profileFrame>>

\* Profile.tsx:69-77  handleSaveBasicInfo, in the name.
NameUpdates == {[name |-> n] : n \in {"Alex Mercer", "A. Mercer"}}

NextIdentity ==
    \/ \E u \in NameUpdates : UserUpdate(u)
    \/ handleFileUpload
    \/ \E email \in Emails : handleFileUpload_email(email)
    \/ \E i \in DOMAIN pending : updateUser_persisted(i)

\* The shipped build, a seed user signed in (the session key holds the email)
\* and on the Profile page.
InitIdentity ==
    /\ InitTaskIdle
    /\ InitBackend
    /\ USE_REAL_BACKEND = FALSE
    /\ InitDashIdle
    /\ user \in SignedInUsers
    /\ pending = << >>
    /\ activeModal = Null
    /\ editingItem = << >>
    /\ now = 1
    /\ submits = 0
    /\ InitSession

SpecIdentity == InitIdentity /\ [][NextIdentity]_vars

\* C24: the email of the local user stays the session email, and every write
\* updateUser has issued is addressed (api.ts:329) to the record of the session
\* user, also after a resume import whose profile carries an email.
C24_WritesTargetSessionUser ==
    isAuthenticated =>
        /\ user.email = activeUser
        /\ \A i \in DOMAIN pending : apiEmail(pending[i].updates) = activeUser

(***************************************************************************)
(* The server's PUT /api/user/:email (part_004:260-357) statement by       *)
(* statement: what a transaction has done is visible to the other          *)
(* connections once it commits and never when it is rolled back: SpecPut.  *)
(***************************************************************************)
MaxPutCalls == 1

\* The bodies of the requests.
PutUpdates ==
    { [name |-> "A. Mercer"],
      [skills |-> << >>],
      [skills |-> <<[name |-> "React"]>>],
      [name |-> "A. Mercer", skills |-> <<[name |-> "Go"], [name |-> "React"]>>] }

\* The tables as the other connections read them.
Visible == [users |-> dbUsers, skills |-> dbSkills]

putFrame ==
    <<dbTasks, lsUsers, USE_REAL_BACKEND, lsTasks, taskUi, profileVars, dashVars,
      gapVars, focusVars, authVars>>

\* part_004:261-263  pool.getConnection() and beginTransaction()
put_begin(email, updates) ==
    /\ Len(putCalls) < MaxPutCalls
    /\ poolInUse' = poolInUse + 1
    /\ putCalls' = Append(putCalls,
          [email |-> email, updates |-> updates, pc |-> "select", userId |-> 0,
           updated |-> FALSE, deleted |-> FALSE, inserted |-> << >>,
           snapshot |-> Visible, clean |-> TRUE])
    /\ lastOp' = [op |-> "put_begin"]
    /\ UNCHANGED <<dbUsers, dbSkills, dbSeq, putFrame>>

\* part_004:268-272  SELECT id FROM users WHERE email = ?, with a row
put_select(i) ==
    LET c == putCalls[i] IN
    /\ c.pc = "select"
    /\ ~noUser(dbUsers, c.email)
    /\ putCalls' = [putCalls EXCEPT ![i].userId = getUserByEmail(dbUsers, c.email).id,
                                    ![i].pc = "update"]
    /\ lastOp' = [op |-> "put_select"]
    /\ UNCHANGED <<dbUsers, dbSkills, dbSeq, poolInUse, putFrame>>

\* part_004:274-288  UPDATE users SET ... WHERE id = ?
put_update(i) ==
    LET c == putCalls[i] IN
    /\ c.pc = "update"
    /\ putCalls' = [putCalls EXCEPT
          ![i].updated = TRUE,
          ![i].pc = IF "skills" \in DOMAIN c.updates THEN "delete" ELSE "commit"]
    /\ lastOp' = [op |-> "put_update"]
    /\ UNCHANGED <<dbUsers, dbSkills, dbSeq, poolInUse, putFrame>>

\* part_004:291-292  DELETE FROM skills WHERE user_id = ?
put_delete(i) ==
    LET c == putCalls[i] IN
    /\ c.pc = "delete"
    /\ putCalls' = [putCalls EXCEPT
          ![i].deleted = TRUE,
          ![i].pc = IF c.updates.skills = << >> THEN "commit" ELSE "insert"]
    /\ lastOp' = [op |-> "put_delete"]
    /\ UNCHANGED <<dbUsers, dbSkills, dbSeq, poolInUse, putFrame>>

\* part_004:293-298  INSERT INTO skills ... for the next skill of the body; the
\* AUTO_INCREMENT value it takes is not given back by a rollback.
put_insert(i) ==
    LET c == putCalls[i]
        k == Len(c.inserted) + 1
    IN
    /\ c.pc = "insert"
    /\ dbSeq.skills < MaxAutoId
    /\ dbSeq' = [dbSeq EXCEPT !.skills = @ + 1]
    /\ putCalls' = [putCalls EXCEPT
          ![i].inserted = Append(@, [id |-> dbSeq.skills + 1, user_id |-> c.userId,
                                     name |-> c.updates.skills[k].name]),
          ![i].pc = IF k = Len(c.updates.skills) THEN "commit" ELSE "insert"]
    /\ lastOp' = [op |-> "put_insert"]
    /\ UNCHANGED <<dbUsers, dbSkills, poolInUse, putFrame>>

\* The tables once the statements call c has executed are applied.
applied(c) ==
    [users |-> IF c.updated
               THEN [dbUsers EXCEPT ![findIndex(dbUsers, c.email)] =
                                        putUserFields(@, c.updates)]
               ELSE dbUsers,
     skills |-> IF c.deleted THEN deleteRows(dbSkills, c.userId) \o c.inserted
                ELSE dbSkills]

\* A call other than i has committed: what call i saw at its start is no longer
\* what is visible without it.
others(i) == [j \in DOMAIN putCalls |->
                 IF j = i THEN putCalls[j] ELSE [putCalls[j] EXCEPT !.clean = FALSE]]

\* part_004:346-347, 354-356  commit(), res.json({message}), release()
put_commit(i) ==
    LET c == putCalls[i] IN
    /\ c.pc = "commit"
    /\ dbUsers' = applied(c).users
    /\ dbSkills' = applied(c).skills
    /\ poolInUse' = poolInUse - 1
    /\ putCalls' = RemoveAt(others(i), i)
    /\ lastOp' = [op |-> "put_committed", status |-> 200, call |-> c]
    /\ UNCHANGED <<dbSeq, putFrame>>

\* The mutant of put_failed: what the statements had done stays.
put_failed_NoRollback(i) ==
    LET c == putCalls[i] IN
    /\ c.pc # "commit"
    /\ dbUsers' = applied(c).users
    /\ dbSkills' = applied(c).skills
    /\ poolInUse' = poolInUse - 1
    /\ putCalls' = RemoveAt(putCalls, i)
    /\ lastOp' = [op |-> "put_failed", status |-> 500, error |-> "Update failed",
                  call |-> c]
    /\ UNCHANGED <<dbSeq, putFrame>>

\* part_004:269-271, 349-356: the SELECT found no user, or the statement the
\* call was about to execute failed: rollback(), status 500 with
\* {error: 'Update failed'}, release().
put_failed(i) ==
    LET c == putCalls[i] IN
    /\ c.pc # "commit"
    /\ poolInUse' = poolInUse - 1
    /\ putCalls' = RemoveAt(putCalls, i)
    /\ lastOp' = [op |-> "put_failed", status |-> 500, error |-> "Update failed",
                  call |-> c]
    /\ UNCHANGED <<dbUsers, dbSkills, dbSeq, putFrame>>

NextPut ==
    \/ \E e \in UpdateEmails, u \in PutUpdates : put_begin(e, u)
    \/ \E i \in DOMAIN putCalls : put_select(i)
    \/ \E i \in DOMAIN putCalls : put_update(i)
    \/ \E i \in DOMAIN putCalls : put_delete(i)
    \/ \E i \in DOMAIN putCalls : put_insert(i)
    \/ \E i \in DOMAIN putCalls : put_commit(i)
    \/ \E i \in DOMAIN putCalls : put_failed(i)

InitPut ==
    /\ InitTaskIdle
    /\ InitBackend
    /\ USE_REAL_BACKEND = TRUE
    /\ InitProfileIdle
    /\ InitDashIdle
    /\ InitSession

SpecPut == InitPut /\ [][NextPut]_vars

\* The names of the skills rows of user userId, in order.
SkillNamesOf(table, userId) ==
    [i \in DOMAIN selectRows(table, userId) |-> selectRows(table, userId)[i].name]

C26_WitnessNoUser ==
    /\ lastOp.op = "put_failed"
    /\ lastOp.call.pc = "select"
    /\ noUser(dbUsers, lastOp.call.email)

(***************************************************************************)
(* The Tasks page opened on a reload with a stored session: checkSession   *)
(* (UserContext.tsx:31-48), the effect of TaskProvider (TaskContext.tsx:   *)
(* 24-44) and the effect of the page (part_002:15-25): SpecAutoGen.        *)
(***************************************************************************)

\* The list stored for the user of the session: none, or one task.
PersistedLists == { << >>, <<[id |-> "t1", title |-> "Read", status |-> "Done"]>> }

\* UserContext.tsx:37-39, 45: api.user.get has resolved; setUser,
\* setIsAuthenticated(true) and setLoading(false) follow without an await
\* between them.
checkSession_restored(i) ==
    /\ authCalls[i].kind = "checkSession"
    /\ user' = MockBackend_getUser(lsUsers, authCalls[i].email)
    /\ isAuthenticated' = TRUE
    /\ userLoading' = FALSE
    /\ authCalls' = RemoveAt(authCalls, i)
    /\ lastOp' = [op |-> "checkSession"]
    /\ UNCHANGED <<activeUser, lsPasswords, lsUsers, authFrame>>

\* part_005:30-45: ProtectedRoute renders the page once the session is checked
\* and the user is authenticated; the effect of the page then runs, and runs
\* again when its dependencies change.
Tasks_mounted == isAuthenticated /\ ~userLoading

\* TaskContext.tsx:40-44: the effect of TaskProvider runs for the new user.email.
TaskProvider_effect ==
    /\ "email" \in DOMAIN user
    /\ SignedIn(user.email)

NextAutoGen ==
    \/ \E i \in DOMAIN authCalls : checkSession_restored(i)
    \/ Tasks_mounted /\ Tasks_effect
    \/ TaskProvider_effect
    \/ \E i \in DOMAIN inflight : fetchTasks_resolved(i)
    \/ \E i \in DOMAIN inflight, generated \in GenLists :
          generateNewTasks_generated(i, generated)
    \/ \E i \in DOMAIN inflight : generateNewTasks_saved(i)
    \/ \E i \in DOMAIN inflight : generateNewTasks_failed(i)

\* The shipped build reloaded at /tasks with the session key of a seed user:
\* checkSession awaits api.user.get, TaskProvider has run fetchTasks without an
\* email (TaskContext.tsx:25-27), the page is not rendered yet.
InitAutoGen ==
    /\ InitBackend
    /\ USE_REAL_BACKEND = FALSE
    /\ InitDashIdle
    /\ InitProfileIdle
    /\ tasks = << >>
    /\ loading = FALSE
    /\ error = Null
    /\ userEmail = ""
    /\ inflight = << >>
    /\ \E e \in Emails, list \in PersistedLists :
          /\ activeUser = e
          /\ authCalls = <<[kind |-> "checkSession", email |-> e]>>
          /\ lsTasks = [u \in Emails \cup {MOCK_USER_ID} |->
                           IF u = e THEN list ELSE << >>]
    /\ lastOp = NoOp
    /\ prevTasks = << >>
    /\ origTasks = << >>
    /\ toggleCount = 0
    /\ isAuthenticated = FALSE
    /\ userLoading = TRUE
    /\ lsPasswords = SeedPasswords

SpecAutoGen == InitAutoGen /\ [][NextAutoGen]_vars

\* C23: the effect of the Tasks page has called generateNewTasks only for a user
\* with no stored task, whatever the order in which the effect of the page and
\* fetchTasks of TaskProvider run, so that no stored list is overwritten.
C23_AutoGenOnlyWhenNoneStored ==
    \A i \in DOMAIN inflight :
       inflight[i].kind = "generate" =>
          MockBackend_getTasks(lsTasks, mockId(inflight[i].email)) = << >>

\* The part of C23 that holds: the effect calls generateNewTasks at most once
\* while the page is mounted.
C23_AtMostOncePerMount ==
    [][ /\ hasGeneratedRef => hasGeneratedRef'
        /\ (lastOp'.op = "Tasks_effect" /\ hasGeneratedRef) => inflight' = inflight ]_vars

=============================================================================
